---- MODULE Spec2Model ----
(***************************************************************************)
(* Kokoro analytics engine (src/src/kokoro/analyzer.py).                   *)
(*                                                                         *)
(* Analyzer.analyze is a pure function of a TranscriptionResult and an     *)
(* AnalyticsConfig.  The state machine below holds one input, the          *)
(* configuration of the current Analyzer, the report of the last call and  *)
(* the (configuration, report) of the call before it, so that two calls on *)
(* the same input can be compared.                                         *)
(*                                                                         *)
(* Scores, confidences and thresholds are Python floats in the source.     *)
(* They are modelled in fixed point, in tenths: 0.4 is 4, -0.3 is -3,      *)
(* 5.0 is 50.  Python lists are sequences; a Python dict is a sequence of  *)
(* [key, val] records in insertion order (a dict iterates in the order in  *)
(* which its keys were first inserted; assigning to an existing key        *)
(* replaces the value and keeps the position); an Optional is a sequence   *)
(* of length 0 (None) or 1.                                                *)
(***************************************************************************)
EXTENDS Integers, Sequences, FiniteSets, Bags

VARIABLES
    result,   \* the TranscriptionResult handed to analyze
    cfg,      \* Analyzer._cfg of the current Analyzer
    report,   \* the VibeReport returned by the last analyze call
    prev,     \* configuration and report of the analyze call before that
    runs,     \* number of analyze calls made on result
    best_sents, \* _detect_hot_topics' local best_sent, one per topic segment
    classes,  \* _compute_consensus' local cls, one per intent entry
    calls,    \* concurrent callers of analyze on the one Analyzer: position,
              \* argument and returned report of each, and whether
              \* another call was in progress when it began
    locals,   \* analyze's local variable report, one per call frame
    pc,       \* "idle": Analyzer constructed; "done": analyze has returned
    recorders,     \* the VoiceRecorder objects alive, by object identity
    voice_clients, \* the VoiceRecvClient objects, by object identity
    files,         \* the files under output_dir and the temp directory
    _recorders,    \* KokoroBot._recorders: guild id -> VoiceRecorder
    handlers,      \* the slash-command handlers in flight: position and locals
    api,           \* a direct caller of VoiceRecorder.start / stop: position and locals
    heard,         \* per VoiceRecorder, the PCM payloads delivered since its last start
    handoff        \* per VoiceRecorder, how often its stop returned a WAV and how
                   \* often the analyzer ran on its recording

analysis_vars == <<result, cfg, report, prev, runs, best_sents, classes, calls, locals, pc>>

bot_vars == <<recorders, voice_clients, files, _recorders, handlers, api, heard, handoff>>

vars == <<result, cfg, report, prev, runs, best_sents, classes, calls, locals, pc, recorders, voice_clients, files, _recorders, handlers, api, heard, handoff>>

----------------------------------------------------------------------------
(* Bounds of the model *)

MaxSent == 3      \* longest sentiment stream of a vibe-shift input
MaxHotSent == 2   \* most sentiment segments of a hot-topic input
MaxTopicSegs == 2 \* most topic segments of a hot-topic input or a narrow topic stream
MaxEntries == 1   \* most topic entries of a segment of a narrow topic stream
MaxNames == 11    \* most distinct topic names of a wide topic segment
MaxRuns == 2      \* analyze calls made on one input
MaxIntentSegs == 2    \* most intent segments of a structural intent input
MaxIntentEntries == 2 \* most intent entries of one of its segments
MaxTally == 7         \* most entries of one class in a tallying intent input
MaxCallers == 2       \* concurrent callers of analyze
MaxHandlers == 2      \* slash-command handlers in flight at once
MaxPaths == 2         \* temp files that can exist at once
MaxBuffer == 2        \* most PCM bytes delivered to one recorder between two starts

----------------------------------------------------------------------------
(* models.py *)

Sentiment == {"positive", "neutral", "negative"}

ConsensusLevel == {"high", "moderate", "low"}

SentimentSegment(text, start_word, end_word, sentiment, sentiment_score) ==
    [text |-> text, start_word |-> start_word, end_word |-> end_word,
     sentiment |-> sentiment, sentiment_score |-> sentiment_score]

TopicEntry(topic, confidence_score) ==
    [topic |-> topic, confidence_score |-> confidence_score]

TopicSegment(text, start_word, end_word, topics) ==
    [text |-> text, start_word |-> start_word, end_word |-> end_word,
     topics |-> topics]

IntentEntry(intent, confidence_score) ==
    [intent |-> intent, confidence_score |-> confidence_score]

IntentSegment(text, start_word, end_word, intents) ==
    [text |-> text, start_word |-> start_word, end_word |-> end_word,
     intents |-> intents]

TranscriptionResult(transcript, summary, sentiment_segments, sentiment_average, sentiment_average_label, topic_segments, intent_segments) ==
    [transcript |-> transcript, summary |-> summary,
     sentiment_segments |-> sentiment_segments,
     sentiment_average |-> sentiment_average,
     sentiment_average_label |-> sentiment_average_label,
     topic_segments |-> topic_segments,
     intent_segments |-> intent_segments]

VibeShift(timestamp_text, from_score, to_score, delta, from_sentiment, to_sentiment) ==
    [timestamp_text |-> timestamp_text, from_score |-> from_score,
     to_score |-> to_score, delta |-> delta,
     from_sentiment |-> from_sentiment, to_sentiment |-> to_sentiment]

HotTopic(topic, sentiment_score, sentiment, context_text) ==
    [topic |-> topic, sentiment_score |-> sentiment_score,
     sentiment |-> sentiment, context_text |-> context_text]

ActionItem(text, intent, confidence) ==
    [text |-> text, intent |-> intent, confidence |-> confidence]

\* VibeReport(): every field at its dataclass default
VibeReport ==
    [summary |-> "", transcript |-> "",
     overall_sentiment |-> "neutral", overall_sentiment_score |-> 0,
     vibe_shifts |-> <<>>, hot_topics |-> <<>>, action_items |-> <<>>,
     top_topics |-> <<>>, consensus_level |-> "moderate",
     affirmation_ratio |-> [num |-> 0, den |-> 1],
     sentiment_segments |-> <<>>]

----------------------------------------------------------------------------
(* config.py *)

AnalyticsConfig(vibe_shift_threshold, negative_sentiment_threshold, min_confidence) ==
    [vibe_shift_threshold |-> vibe_shift_threshold,
     negative_sentiment_threshold |-> negative_sentiment_threshold,
     min_confidence |-> min_confidence]

DefaultAnalyticsConfig == AnalyticsConfig(4, -3, 3)

----------------------------------------------------------------------------
(* Strings that are searched (intent labels, intent-segment texts) are     *)
(* sequences of one-character strings.                                     *)

LowercaseLetters == <<"a", "b", "c", "d", "e", "f", "g", "h", "i", "j", "k", "l", "m", "n", "o", "p", "q", "r", "s", "t", "u", "v", "w", "x", "y", "z">>

UppercaseLetters == <<"A", "B", "C", "D", "E", "F", "G", "H", "I", "J", "K", "L", "M", "N", "O", "P", "Q", "R", "S", "T", "U", "V", "W", "X", "Y", "Z">>

Digits == <<"0", "1", "2", "3", "4", "5", "6", "7", "8", "9">>

\* the lowercase letter of each uppercase letter
LowerOf ==
    [ch \in {UppercaseLetters[i] : i \in DOMAIN UppercaseLetters} |->
        LowercaseLetters[CHOOSE i \in DOMAIN UppercaseLetters : UppercaseLetters[i] = ch]]

\* str.lower(), on ASCII letters
LowerChar(ch) == IF ch \in DOMAIN LowerOf THEN LowerOf[ch] ELSE ch

lower(str) == [i \in DOMAIN str |-> LowerChar(str[i])]

\* kw in str
Contains(str, kw) ==
    \E i \in 1..(Len(str) - Len(kw) + 1) : SubSeq(str, i, i + Len(kw) - 1) = kw

WordChars ==
    {LowercaseLetters[i] : i \in DOMAIN LowercaseLetters}
    \cup {UppercaseLetters[i] : i \in DOMAIN UppercaseLetters}
    \cup {Digits[i] : i \in DOMAIN Digits}
    \cup {"_"}

\* \w
IsWordChar(ch) == ch \in WordChars

----------------------------------------------------------------------------
(* analyzer.py: action lexicon and intent keywords *)

\* lines 29-33: each pattern is \b(alt|alt|...)\b compiled with re.I; an
\* alternative is a sequence of characters in which "ANY" stands for the
\* regex dot
_ACTION_PATTERNS ==
    << { <<"w", "i", "l", "l">>,
         <<"g", "o", "i", "n", "g", " ", "t", "o">>,
         <<"n", "e", "e", "d", " ", "t", "o">>,
         <<"h", "a", "v", "e", " ", "t", "o">>,
         <<"m", "u", "s", "t">>,
         <<"s", "h", "o", "u", "l", "d">>,
         <<"p", "l", "a", "n", " ", "t", "o">>,
         <<"c", "o", "m", "m", "i", "t", " ", "t", "o">> },
       { <<"d", "e", "l", "i", "v", "e", "r">>,
         <<"f", "i", "n", "i", "s", "h">>,
         <<"c", "o", "m", "p", "l", "e", "t", "e">>,
         <<"s", "e", "n", "d">>,
         <<"s", "u", "b", "m", "i", "t">>,
         <<"p", "r", "e", "p", "a", "r", "e">>,
         <<"s", "c", "h", "e", "d", "u", "l", "e">>,
         <<"f", "i", "x">>,
         <<"d", "e", "p", "l", "o", "y">> },
       { <<"a", "c", "t", "i", "o", "n", " ", "i", "t", "e", "m">>,
         <<"n", "e", "x", "t", " ", "s", "t", "e", "p">>,
         <<"f", "o", "l", "l", "o", "w", "ANY", "u", "p">>,
         <<"t", "a", "k", "e", "ANY", "a", "w", "a", "y">> } >>

\* line 36, in the order of the source text
AffirmationKeywordList ==
    << <<"a", "f", "f", "i", "r", "m">>,
      <<"a", "g", "r", "e", "e">>,
      <<"c", "o", "n", "f", "i", "r", "m">>,
      <<"a", "p", "p", "r", "o", "v", "e">>,
      <<"a", "c", "c", "e", "p", "t">>,
      <<"y", "e", "s">>,
      <<"a", "f", "f", "i", "r", "m", "a", "t", "i", "o", "n">> >>

_AFFIRMATION_KEYWORDS == {AffirmationKeywordList[i] : i \in DOMAIN AffirmationKeywordList}

\* line 37, in the order of the source text
DisagreementKeywordList ==
    << <<"d", "i", "s", "a", "g", "r", "e", "e">>,
      <<"d", "e", "n", "y">>,
      <<"r", "e", "j", "e", "c", "t">>,
      <<"r", "e", "f", "u", "s", "e">>,
      <<"o", "p", "p", "o", "s", "e">>,
      <<"n", "o">>,
      <<"d", "i", "s", "a", "g", "r", "e", "e", "m", "e", "n", "t">> >>

_DISAGREEMENT_KEYWORDS == {DisagreementKeywordList[i] : i \in DOMAIN DisagreementKeywordList}

\* A Python set of strings iterates in an order that depends on the hash
\* seed of the process.  The orders considered are the rotations of the
\* source order and of its reverse: every keyword comes first in some order,
\* and every two keywords come in both relative orders.
Rotate(s, k) == [i \in DOMAIN s |-> s[((i - 1 + k) % Len(s)) + 1]]

Reverse(s) == [i \in DOMAIN s |-> s[Len(s) + 1 - i]]

IterationOrders ==
    { [affirm |-> Rotate(l[1], k), disagree |-> Rotate(l[2], k)] :
      k \in 0..(Len(AffirmationKeywordList) - 1),
      l \in { <<AffirmationKeywordList, DisagreementKeywordList>>,
              <<Reverse(AffirmationKeywordList), Reverse(DisagreementKeywordList)>> } }

\* the alternative alt matches str at position i, ignoring case, between two
\* word boundaries (every alternative starts and ends with a letter, so \b
\* asks for no word character right before and right after the match)
MatchesAt(str, alt, i) ==
    /\ i + Len(alt) - 1 <= Len(str)
    /\ \A k \in DOMAIN alt :
          IF alt[k] = "ANY" THEN str[i + k - 1] # "\n"
          ELSE LowerChar(str[i + k - 1]) = alt[k]
    /\ (i = 1 \/ ~IsWordChar(str[i - 1]))
    /\ (i + Len(alt) - 1 = Len(str) \/ ~IsWordChar(str[i + Len(alt)]))

\* p.search(text)
Search(pattern, str) ==
    \E alt \in pattern : \E i \in DOMAIN str : MatchesAt(str, alt, i)

\* lines 40-41
_is_action_like(text) ==
    \E n \in DOMAIN _ACTION_PATTERNS : Search(_ACTION_PATTERNS[n], text)

\* lines 47-49 and 50-52: for kw in keywords: if kw in lower: return ...;
\* TRUE when the loop returns, from keyword i on
RECURSIVE KeywordLoop(_, _, _)
KeywordLoop(lower_label, keywords, i) ==
    IF i > Len(keywords) THEN FALSE
    ELSE IF Contains(lower_label, keywords[i]) THEN TRUE
    ELSE KeywordLoop(lower_label, keywords, i + 1)

_classify_intent_disagreefirst(intent_label, order) ==
    IF KeywordLoop(lower(intent_label), order.disagree, 1) THEN "disagree"
    ELSE IF KeywordLoop(lower(intent_label), order.affirm, 1) THEN "affirm"
    ELSE "none"

\* one loop over the keywords of both sets, the first keyword found deciding
RECURSIVE MergedLoop(_, _, _)
MergedLoop(lower_label, order, i) ==
    IF i > Len(order.affirm) THEN "none"
    ELSE IF Contains(lower_label, order.affirm[i]) THEN "affirm"
    ELSE IF Contains(lower_label, order.disagree[i]) THEN "disagree"
    ELSE MergedLoop(lower_label, order, i + 1)

_classify_intent_merged(intent_label, order) == MergedLoop(lower(intent_label), order, 1)

\* lines 44-53: "affirm", "disagree" or "none" (None); order is the
\* iteration order of the two keyword sets
_classify_intent(intent_label, order) ==
    LET lower_label == lower(intent_label)
    IN IF KeywordLoop(lower_label, order.affirm, 1) THEN "affirm"
       ELSE IF KeywordLoop(lower_label, order.disagree, 1) THEN "disagree"
       ELSE "none"

----------------------------------------------------------------------------
(* analyzer.py: vibe shifts *)

abs(x) == IF x < 0 THEN -x ELSE x

\* line 104 with the comparison made strict
ShiftQualifies_strict(delta, c) == delta > c.vibe_shift_threshold

\* line 104 with the configured threshold replaced by the default one
ShiftQualifies_default(delta, c) == delta >= DefaultAnalyticsConfig.vibe_shift_threshold

\* line 104: if delta >= self._cfg.vibe_shift_threshold
ShiftQualifies(delta, c) == delta >= c.vibe_shift_threshold

\* lines 105-114: the VibeShift appended for the pair (prev, curr)
MakeShift(prv, curr, delta) ==
    VibeShift(curr.text, prv.sentiment_score, curr.sentiment_score, delta,
              prv.sentiment, curr.sentiment)

\* lines 100-114: the loop body from index i on (i is 1-based here, so the
\* source's range(1, len(segments)) is 2..Len(segments))
RECURSIVE VibeLoop(_, _, _, _)
VibeLoop(segments, c, i, shifts) ==
    IF i > Len(segments) THEN shifts
    ELSE LET prv == segments[i - 1]
             curr == segments[i]
             delta == abs(curr.sentiment_score - prv.sentiment_score)
         IN VibeLoop(segments, c, i + 1,
                     IF ShiftQualifies(delta, c)
                     THEN Append(shifts, MakeShift(prv, curr, delta))
                     ELSE shifts)

\* line 100 with the scan started one pair late
_detect_vibe_shifts_late(segments, c) == VibeLoop(segments, c, 3, <<>>)

_detect_vibe_shifts(segments, c) == VibeLoop(segments, c, 2, <<>>)

----------------------------------------------------------------------------
(* Python dict, in insertion order *)

DictHas(d, k) == \E i \in DOMAIN d : d[i].key = k

DictGet(d, k) == d[CHOOSE i \in DOMAIN d : d[i].key = k].val

\* d[k] = v
DictSet(d, k, v) ==
    IF DictHas(d, k)
    THEN [i \in DOMAIN d |-> IF d[i].key = k THEN [key |-> k, val |-> v] ELSE d[i]]
    ELSE Append(d, [key |-> k, val |-> v])

\* list(d.values())
DictValues(d) == [i \in DOMAIN d |-> d[i].val]

----------------------------------------------------------------------------
(* analyzer.py: hot topics *)

\* lines 124-126: word_sentiment[(seg.start_word, seg.end_word)] = seg
RECURSIVE BuildWordSentiment(_, _, _)
BuildWordSentiment(segs, i, d) ==
    IF i > Len(segs) THEN d
    ELSE BuildWordSentiment(segs, i + 1,
             DictSet(d, <<segs[i].start_word, segs[i].end_word>>, segs[i]))

\* line 133: if tseg.start_word <= ew and tseg.end_word >= sw
Overlaps(tseg, sw, ew) == tseg.start_word <= ew /\ tseg.end_word >= sw

\* line 134: if best_sent is None or sseg.sentiment_score < best_sent.sentiment_score
Improves(sseg, best_sent) ==
    Len(best_sent) = 0 \/ sseg.sentiment_score < best_sent[1].sentiment_score

\* lines 131-135: the scan of word_sentiment.items() from position i on
RECURSIVE BestSentLoop(_, _, _, _)
BestSentLoop(tseg, word_sentiment, i, best_sent) ==
    IF i > Len(word_sentiment) THEN best_sent
    ELSE LET sw == word_sentiment[i].key[1]
             ew == word_sentiment[i].key[2]
             sseg == word_sentiment[i].val
         IN BestSentLoop(tseg, word_sentiment, i + 1,
                IF Overlaps(tseg, sw, ew) /\ Improves(sseg, best_sent)
                THEN <<sseg>> ELSE best_sent)

BestSent(tseg, word_sentiment) == BestSentLoop(tseg, word_sentiment, 1, <<>>)

\* line 136 with the comparison made inclusive
IsNegative_le(best_sent, c) ==
    /\ Len(best_sent) = 1
    /\ best_sent[1].sentiment_score <= c.negative_sentiment_threshold

\* line 136: if best_sent and best_sent.sentiment_score < threshold
\* (a dataclass instance is always truthy)
IsNegative(best_sent, c) ==
    /\ Len(best_sent) = 1
    /\ best_sent[1].sentiment_score < c.negative_sentiment_threshold

\* line 138: if te.confidence_score >= self._cfg.min_confidence
IsConfident(te, c) == te.confidence_score >= c.min_confidence

\* lines 137-146: the candidates of one topic segment, from entry j on
RECURSIVE EntryLoop(_, _, _, _, _)
EntryLoop(tseg, best_sent, c, j, hot) ==
    IF j > Len(tseg.topics) THEN hot
    ELSE LET te == tseg.topics[j]
         IN EntryLoop(tseg, best_sent, c, j + 1,
                IF IsConfident(te, c)
                THEN Append(hot, HotTopic(te.topic, best_sent[1].sentiment_score,
                                          best_sent[1].sentiment, tseg.text))
                ELSE hot)

\* lines 129-146: the loop over result.topic_segments, from segment i on
RECURSIVE TopicSegLoop(_, _, _, _, _)
TopicSegLoop(topic_segments, word_sentiment, c, i, hot) ==
    IF i > Len(topic_segments) THEN hot
    ELSE LET tseg == topic_segments[i]
             best_sent == BestSent(tseg, word_sentiment)
         IN TopicSegLoop(topic_segments, word_sentiment, c, i + 1,
                IF IsNegative(best_sent, c)
                THEN EntryLoop(tseg, best_sent, c, 1, hot)
                ELSE hot)

\* line 136: the value of best_sent for each topic segment, in stream order
BestSents(r) ==
    [i \in DOMAIN r.topic_segments |->
        BestSent(r.topic_segments[i],
                 BuildWordSentiment(r.sentiment_segments, 1, <<>>))]

\* lines 124-146: the list hot before deduplication
HotCandidates(r, c) ==
    TopicSegLoop(r.topic_segments,
                 BuildWordSentiment(r.sentiment_segments, 1, <<>>), c, 1, <<>>)

\* line 150 with the first candidate of a name kept
Replaces_first(seen, h) == ~DictHas(seen, h.topic)

\* line 150: if h.topic not in seen or h.sentiment_score < seen[h.topic].sentiment_score
Replaces(seen, h) ==
    \/ ~DictHas(seen, h.topic)
    \/ h.sentiment_score < DictGet(seen, h.topic).sentiment_score

\* lines 148-151
RECURSIVE DedupLoop(_, _, _)
DedupLoop(hot, i, seen) ==
    IF i > Len(hot) THEN seen
    ELSE DedupLoop(hot, i + 1,
             IF Replaces(seen, hot[i]) THEN DictSet(seen, hot[i].topic, hot[i])
             ELSE seen)

\* x goes after every element whose key is not greater (sorted is stable)
InsertAscending(sorted, x) ==
    LET n == Cardinality({j \in DOMAIN sorted :
                             sorted[j].sentiment_score <= x.sentiment_score})
    IN SubSeq(sorted, 1, n) \o <<x>> \o SubSeq(sorted, n + 1, Len(sorted))

RECURSIVE SortLoopAscending(_, _, _)
SortLoopAscending(s, i, sorted) ==
    IF i > Len(s) THEN sorted
    ELSE SortLoopAscending(s, i + 1, InsertAscending(sorted, s[i]))

\* line 152 without the sort
SortedByScore_unsorted(s) == s

\* line 152: sorted(..., key=lambda h: h.sentiment_score)
SortedByScore(s) == SortLoopAscending(s, 1, <<>>)

_detect_hot_topics(r, c) ==
    SortedByScore(DictValues(DedupLoop(HotCandidates(r, c), 1, <<>>)))

----------------------------------------------------------------------------
(* analyzer.py: top topics *)

TopLimit == 10

max(a, b) == IF a >= b THEN a ELSE b

\* line 163 with the confidences summed
Aggregate_sum(agg, te) ==
    DictSet(agg, te.topic,
            (IF DictHas(agg, te.topic) THEN DictGet(agg, te.topic) ELSE 0)
            + te.confidence_score)

\* line 163: agg[te.topic] = max(agg[te.topic], te.confidence_score), where
\* agg is a defaultdict(float): a missing name reads as 0.0
Aggregate(agg, te) ==
    DictSet(agg, te.topic,
            max(IF DictHas(agg, te.topic) THEN DictGet(agg, te.topic) ELSE 0,
                te.confidence_score))

\* line 162: the entries of one topic segment, from entry j on
RECURSIVE AggEntryLoop(_, _, _)
AggEntryLoop(topics, j, agg) ==
    IF j > Len(topics) THEN agg
    ELSE AggEntryLoop(topics, j + 1, Aggregate(agg, topics[j]))

\* lines 160-163
RECURSIVE AggLoop(_, _, _)
AggLoop(topic_segments, i, agg) ==
    IF i > Len(topic_segments) THEN agg
    ELSE AggLoop(topic_segments, i + 1,
                 AggEntryLoop(topic_segments[i].topics, 1, agg))

\* x goes after every element whose key is not smaller (reverse=True keeps
\* the original order of equal keys)
InsertDescending(sorted, x) ==
    LET n == Cardinality({j \in DOMAIN sorted :
                             sorted[j].confidence_score >= x.confidence_score})
    IN SubSeq(sorted, 1, n) \o <<x>> \o SubSeq(sorted, n + 1, Len(sorted))

RECURSIVE SortLoopDescending(_, _, _)
SortLoopDescending(s, i, sorted) ==
    IF i > Len(s) THEN sorted
    ELSE SortLoopDescending(s, i + 1, InsertDescending(sorted, s[i]))

\* line 165 with the slice taken before the sort
RankAndTruncate_slicefirst(entries) ==
    SortLoopDescending(SubSeq(entries, 1, IF Len(entries) < TopLimit
                                          THEN Len(entries) ELSE TopLimit),
                       1, <<>>)

\* line 165: sorted(entries, key=..., reverse=True)[:10]
RankAndTruncate(entries) ==
    LET ranked == SortLoopDescending(entries, 1, <<>>)
    IN SubSeq(ranked, 1, IF Len(ranked) < TopLimit THEN Len(ranked) ELSE TopLimit)

_collect_top_topics(r) ==
    LET agg == AggLoop(r.topic_segments, 1, <<>>)
        \* line 164
        entries == [i \in DOMAIN agg |-> TopicEntry(agg[i].key, agg[i].val)]
    IN RankAndTruncate(entries)

----------------------------------------------------------------------------
(* analyzer.py: action items *)

IsActionPair_textonly(iseg, ie) == _is_action_like(iseg.text)

\* line 176
IsActionPair(iseg, ie) == _is_action_like(iseg.text) \/ _is_action_like(ie.intent)

\* lines 175-183: the intents of one segment, from entry j on
RECURSIVE IntentLoop(_, _, _)
IntentLoop(iseg, j, items) ==
    IF j > Len(iseg.intents) THEN items
    ELSE LET ie == iseg.intents[j]
         IN IntentLoop(iseg, j + 1,
                IF IsActionPair(iseg, ie)
                THEN Append(items, ActionItem(iseg.text, ie.intent, ie.confidence_score))
                ELSE items)

\* lines 174-183
RECURSIVE IntentSegLoop(_, _, _)
IntentSegLoop(intent_segments, i, items) ==
    IF i > Len(intent_segments) THEN items
    ELSE IntentSegLoop(intent_segments, i + 1, IntentLoop(intent_segments[i], 1, items))

_extract_action_items(r) == IntentSegLoop(r.intent_segments, 1, <<>>)

----------------------------------------------------------------------------
(* analyzer.py: consensus *)

\* lines 195-200: counts [affirm, total] after the intents of one segment,
\* from entry j on
RECURSIVE CountLoop_all(_, _, _, _)
CountLoop_all(intents, j, n, order) ==
    IF j > Len(intents) THEN n
    ELSE LET cls == _classify_intent(intents[j].intent, order)
         IN CountLoop_all(intents, j + 1,
                [affirm |-> n.affirm + (IF cls = "affirm" THEN 1 ELSE 0),
                 total |-> n.total + 1],
                order)

RECURSIVE CountLoop(_, _, _, _)
CountLoop(intents, j, n, order) ==
    IF j > Len(intents) THEN n
    ELSE LET cls == _classify_intent(intents[j].intent, order)
         IN CountLoop(intents, j + 1,
                [affirm |-> n.affirm + (IF cls = "affirm" THEN 1 ELSE 0),
                 total |-> n.total + (IF cls # "none" THEN 1 ELSE 0)],
                order)

\* lines 192-200
RECURSIVE CountSegLoop(_, _, _, _)
CountSegLoop(intent_segments, i, n, order) ==
    IF i > Len(intent_segments) THEN n
    ELSE CountSegLoop(intent_segments, i + 1,
                      CountLoop(intent_segments[i].intents, 1, n, order), order)

\* line 196: the value of cls for each intent entry, in stream order
Classes(r, order) ==
    [i \in DOMAIN r.intent_segments |->
        [j \in DOMAIN r.intent_segments[i].intents |->
            _classify_intent(r.intent_segments[i].intents[j].intent, order)]]

RECURSIVE gcd(_, _)
gcd(a, b) == IF b = 0 THEN a ELSE gcd(b, a % b)

\* the float a / b, kept as the fraction in lowest terms: two such quotients
\* of small integers are the same float exactly when the fractions are equal
Ratio(a, b) == [num |-> a \div gcd(a, b), den |-> b \div gcd(a, b)]

\* lines 201-203
_compute_consensus_unguarded(r, order) ==
    LET n == CountSegLoop(r.intent_segments, 1, [affirm |-> 0, total |-> 0], order)
    IN IF n.total = 0 THEN Ratio(0, 1) ELSE Ratio(n.affirm, n.total)

_compute_consensus(r, order) ==
    LET n == CountSegLoop(r.intent_segments, 1, [affirm |-> 0, total |-> 0], order)
    IN IF n.total = 0 THEN Ratio(1, 2) ELSE Ratio(n.affirm, n.total)

\* lines 206-211: ratio >= 0.70, ratio >= 0.40 (the quotient of two small
\* integers rounds to a float on the same side of 0.7 and of 0.4 as the
\* fraction itself)
_ratio_to_level_strict(ratio) ==
    IF ratio.num * 10 > 7 * ratio.den THEN "high"
    ELSE IF ratio.num * 10 > 4 * ratio.den THEN "moderate"
    ELSE "low"

_ratio_to_level(ratio) ==
    IF ratio.num * 10 >= 7 * ratio.den THEN "high"
    ELSE IF ratio.num * 10 >= 4 * ratio.den THEN "moderate"
    ELSE "low"

----------------------------------------------------------------------------
(* analyzer.py: analyze *)

NewReport_swapped(r) ==
    [VibeReport EXCEPT !.summary = r.transcript,
                       !.transcript = r.summary,
                       !.overall_sentiment = r.sentiment_average_label,
                       !.overall_sentiment_score = r.sentiment_average,
                       !.sentiment_segments = r.sentiment_segments]

\* lines 68-74: the report as constructed, the other fields at their defaults
NewReport(r) ==
    [VibeReport EXCEPT !.summary = r.summary,
                       !.transcript = r.transcript,
                       !.overall_sentiment = r.sentiment_average_label,
                       !.overall_sentiment_score = r.sentiment_average,
                       !.sentiment_segments = r.sentiment_segments]

\* lines 76-79: the four insight fields are assigned
WithInsights(rep, r, c) ==
    [rep EXCEPT !.vibe_shifts = _detect_vibe_shifts(r.sentiment_segments, c),
                !.hot_topics = _detect_hot_topics(r, c),
                !.top_topics = _collect_top_topics(r),
                !.action_items = _extract_action_items(r)]

\* lines 81-82: the two consensus fields are assigned
WithConsensus(rep, affirmation_ratio) ==
    [rep EXCEPT !.affirmation_ratio = affirmation_ratio,
                !.consensus_level = _ratio_to_level(affirmation_ratio)]

\* lines 66-91; order is the iteration order of the keyword sets in the
\* calling process
analyze(r, c, order) ==
    WithConsensus(WithInsights(NewReport(r), r, c), _compute_consensus(r, order))

----------------------------------------------------------------------------
(* Inputs *)

\* tests/test_analyzer.py, _make_sentiment_segments
TestSentimentSegments ==
    << SentimentSegment("Hello everyone, welcome to the meeting.", 0, 6, "positive", 6),
       SentimentSegment("Let's discuss the project progress.", 7, 12, "neutral", 1),
       SentimentSegment("The deadline was missed and the client is upset.", 13, 22, "negative", -7),
       SentimentSegment("We need to fix this immediately.", 23, 29, "negative", -5) >>

\* tests/test_analyzer.py, _make_result (the confidences 0.85 and 0.98 lie
\* between grid points and are rounded down, which keeps 0.85 on the same
\* side of every confidence floor used here; transcript and summary are
\* abbreviated)
TestResult ==
    TranscriptionResult("transcript", "summary", TestSentimentSegments, -1, "neutral",
        << TopicSegment("The deadline was missed and the client is upset.", 13, 22,
                        << TopicEntry("Missed deadline", 8) >>) >>,
        << IntentSegment(<<"W", "e", " ", "n", "e", "e", "d", " ", "t", "o", " ", "f", "i", "x", " ", "t", "h", "i", "s", " ", "i", "m", "m", "e", "d", "i", "a", "t", "e", "l", "y", ".">>, 23, 29,
                         << IntentEntry(<<"F", "i", "x", " ", "i", "s", "s", "u", "e", " ", "u", "r", "g", "e", "n", "t", "l", "y">>, 9) >>),
           IntentSegment(<<"Y", "e", "s", " ", "I", " ", "a", "g", "r", "e", "e", " ", "w", "i", "t", "h", " ", "t", "h", "e", " ", "p", "l", "a", "n", ".">>, 30, 36,
                         << IntentEntry(<<"A", "f", "f", "i", "r", "m", "a", "t", "i", "o", "n">>, 8) >>) >>)

Texts == <<"ta", "tb", "tc", "td", "te">>

\* label of a score, as the provider assigns it
LabelOf(score) ==
    IF score < -3 THEN "negative" ELSE IF score > 3 THEN "positive" ELSE "neutral"

\* sequences over S of length 0..n
SeqUpTo(S, n) == UNION {[1..k -> S] : k \in 0..n}

\* Sentiment streams of the vibe-shift inputs: consecutive two-word segments,
\* any text and any score of VibeScores
VibeScores == {-7, -3, 1, 6}

VibeStreams ==
    { [i \in DOMAIN x |-> SentimentSegment(x[i][1], 2 * (i - 1), 2 * i - 1,
                                           LabelOf(x[i][2]), x[i][2])] :
      x \in SeqUpTo({"ta", "tb"} \X VibeScores, MaxSent) }

VibeInputs ==
    { TranscriptionResult("transcript", "summary", s, 0, "neutral", <<>>, <<>>) :
      s \in VibeStreams } \cup {TestResult}

VibeConfigs == { AnalyticsConfig(t, -3, 3) : t \in {4, 5, 50} }

\* Inputs of the hot-topic detection: sentiment segments over two word
\* ranges (possibly the same range twice); topic segments over a range that
\* meets one of them and a range that meets both, each listing one name or
\* two names of which the first is below the default confidence floor
HotScores == {-7, -5, -3}

HotSentimentSegments ==
    { SentimentSegment("ts", rg[1], rg[2], LabelOf(sc), sc) :
      rg \in {<<0, 1>>, <<2, 3>>}, sc \in HotScores }

HotTopicLists ==
    { << TopicEntry("A", 3) >>, << TopicEntry("B", 3) >>,
      << TopicEntry("A", 2), TopicEntry("B", 3) >> }

HotTopicStreams ==
    { [i \in DOMAIN x |-> TopicSegment(Texts[i], x[i][1][1], x[i][1][2], x[i][2])] :
      x \in SeqUpTo({<<0, 1>>, <<1, 2>>} \X HotTopicLists, MaxTopicSegs) }

HotInputs ==
    { TranscriptionResult("transcript", "summary", s, 0, "neutral", t, <<>>) :
      s \in SeqUpTo(HotSentimentSegments, MaxHotSent), t \in HotTopicStreams }
    \cup {TestResult}

HotConfigs == { AnalyticsConfig(4, n, 3) : n \in {-3, -50} }

\* Inputs of the topic ranking: narrow topic streams over two names, and
\* wide ones of two segments that list the first k and the first m names of
\* TopicNames with confidences (p * j) % 7 and (q * j) % 7
TopicNames == <<"N01", "N02", "N03", "N04", "N05", "N06", "N07",
                "N08", "N09", "N10", "N11", "N12", "N13">>

TopEntries == { TopicEntry(n, cs) : n \in {"A", "B"}, cs \in {6, 9} }

NarrowTopicStreams ==
    { [i \in DOMAIN x |-> TopicSegment(Texts[i], 0, 1, x[i])] :
      x \in SeqUpTo(SeqUpTo(TopEntries, MaxEntries), MaxTopicSegs) }

WideTopics(k, p) == [j \in 1..k |-> TopicEntry(TopicNames[j], (p * j) % 7)]

WideTopicStreams ==
    { << TopicSegment("ta", 0, 1, WideTopics(k, p)),
         TopicSegment("tb", 2, 3, WideTopics(m, q)) >> :
      k \in 0..MaxNames, p \in 1..3, m \in 0..MaxNames, q \in 1..3 }

TopInputs ==
    { TranscriptionResult("transcript", "summary", <<>>, 0, "neutral", t, <<>>) :
      t \in NarrowTopicStreams \cup WideTopicStreams }
    \cup {TestResult}

TopConfigs == { DefaultAnalyticsConfig }

\* Inputs of the action-item extraction and of the consensus.  Texts and
\* labels are tuples of characters.  IntentTexts: two plain sentences (the
\* first with commitment words), the explicit markers in several spellings
\* and letter cases, and a word that merely begins with an action verb.
\* IntentLabels: every disagreement keyword, affirmation keywords, labels
\* holding keywords of both sets or a keyword inside a longer word, and
\* labels holding none.
IntentTexts ==
    << <<"W", "e", " ", "n", "e", "e", "d", " ", "t", "o", " ", "f", "i", "x", " ", "t", "h", "i", "s", ".">>,
       <<"S", "o", "u", "n", "d", "s", " ", "g", "o", "o", "d", " ", "t", "o", " ", "m", "e", ".">>,
       <<"K", "e", "y", " ", "t", "a", "k", "e", "a", "w", "a", "y">>,
       <<"K", "e", "y", " ", "t", "a", "k", "e", "-", "a", "w", "a", "y">>,
       <<"F", "O", "L", "L", "O", "W", "-", "U", "P", " ", "o", "n", " ", "i", "t">>,
       <<"N", "e", "x", "t", " ", "s", "t", "e", "p", ":", " ", "s", "h", "i", "p">>,
       <<"A", "c", "t", "i", "o", "n", " ", "I", "t", "e", "m", " ", "4">>,
       <<"T", "h", "e", " ", "f", "i", "x", "t", "u", "r", "e", " ", "i", "s", " ", "o", "l", "d", ".">> >>

IntentLabels ==
    << <<"d", "i", "s", "a", "g", "r", "e", "e">>,
       <<"D", "e", "n", "y">>,
       <<"R", "E", "J", "E", "C", "T">>,
       <<"r", "e", "f", "u", "s", "e">>,
       <<"O", "p", "p", "o", "s", "e">>,
       <<"n", "o">>,
       <<"D", "i", "s", "a", "g", "r", "e", "e", "m", "e", "n", "t">>,
       <<"N", "O">>,
       <<"D", "I", "S", "A", "G", "R", "E", "E">>,
       <<"a", "g", "r", "e", "e">>,
       <<"Y", "e", "s">>,
       <<"c", "o", "n", "f", "i", "r", "m">>,
       <<"A", "c", "c", "e", "p", "t", " ", "o", "r", " ", "r", "e", "j", "e", "c", "t">>,
       <<"y", "e", "s", " ", "a", "n", "d", " ", "n", "o">>,
       <<"k", "n", "o", "w">>,
       <<"R", "e", "j", "e", "c", "t", "i", "o", "n">>,
       <<"q", "u", "e", "s", "t", "i", "o", "n">>,
       <<"F", "i", "x", " ", "i", "s", "s", "u", "e", " ", "u", "r", "g", "e", "n", "t", "l", "y">>,
       <<"t", "a", "k", "e", "a", "w", "a", "y">>,
       <<"N", "e", "x", "t", " ", "S", "t", "e", "p">> >>


NeutralText == IntentTexts[2]

ActionText == IntentTexts[1]

EmptyStreams(intent_segments) ==
    TranscriptionResult("transcript", "summary", <<>>, 0, "neutral", <<>>, intent_segments)

\* one segment with one entry: any text, any label
LexicalInputs ==
    { EmptyStreams(<< IntentSegment(IntentTexts[t], 0, 3,
                                    << IntentEntry(IntentLabels[l], conf) >>) >>) :
      t \in DOMAIN IntentTexts, l \in DOMAIN IntentLabels, conf \in {3, 9} }

\* up to MaxIntentSegs segments, plain and committing text in turn, each
\* with up to MaxIntentEntries entries: Yes or question at the odd places,
\* no or question at the even places
TallyLabels == {IntentLabels[11], IntentLabels[6], IntentLabels[17]}

LabelsAt(j) ==
    IF j % 2 = 1 THEN {IntentLabels[11], IntentLabels[17]}
    ELSE {IntentLabels[6], IntentLabels[17]}

IntentLists ==
    { [j \in DOMAIN x |-> IntentEntry(x[j], 10 - j)] :
      x \in { y \in SeqUpTo(TallyLabels, MaxIntentEntries) :
                \A j \in DOMAIN y : y[j] \in LabelsAt(j) } }

IntentStreams ==
    { [i \in DOMAIN x |-> IntentSegment(IF i % 2 = 1 THEN NeutralText ELSE ActionText,
                                        4 * (i - 1), 4 * i - 1, x[i])] :
      x \in SeqUpTo(IntentLists, MaxIntentSegs) }

\* one plain segment with a entries labelled Yes followed by d labelled no
TallyStreams ==
    { << IntentSegment(NeutralText, 0, 3,
                       [j \in 1..(a + d) |->
                           IntentEntry(IF j <= a THEN IntentLabels[11] ELSE IntentLabels[6], 8)]) >> :
      a \in 0..MaxTally, d \in 0..MaxTally }

IntentInputs ==
    LexicalInputs \cup { EmptyStreams(s) : s \in IntentStreams \cup TallyStreams } \cup {TestResult}

IntentConfigs == {DefaultAnalyticsConfig}

\* Inputs of the whole report: every field of the TranscriptionResult takes
\* an empty or default value and at least one other value; the topic streams
\* include a segment without topics and a segment with two topics of equal
\* confidence over the words of a negative sentiment segment; the intent
\* streams include a segment without intents and labels that hold keywords
\* of both sets
ReportSentimentStreams ==
    { <<>>, <<TestSentimentSegments[3]>>, TestSentimentSegments }

ReportTopicStreams ==
    { <<>>,
      << TopicSegment("tt", 13, 22, <<>>) >>,
      TestResult.topic_segments,
      << TopicSegment("tt", 13, 22, << TopicEntry("Budget", 8), TopicEntry("Audit", 8) >>) >> }

ReportIntentStreams ==
    { <<>>,
      << IntentSegment(NeutralText, 0, 3, <<>>) >>,
      TestResult.intent_segments,
      << IntentSegment(ActionText, 23, 29,
                       << IntentEntry(IntentLabels[1], 9), IntentEntry(IntentLabels[14], 8) >>) >> }

ReportInputs ==
    { TranscriptionResult(doc[1], doc[2], ss, avg[1], avg[2], ts, is) :
      doc \in { <<"", "">>, <<"transcript", "summary">> },
      avg \in { <<-4, "negative">>, <<0, "neutral">>, <<0, "positive">> },
      ss \in ReportSentimentStreams,
      ts \in ReportTopicStreams, is \in ReportIntentStreams }

ReportConfigs == { DefaultAnalyticsConfig, AnalyticsConfig(5, -8, 9) }

\* Arguments of the concurrent calls: two inputs that differ in every field
\* and have vibe shifts, hot topics, top topics, action items and
\* classifiable intents, and an empty input
CallInputs ==
    { TranscriptionResult("transcript", "summary", TestSentimentSegments, -1, "neutral",
          TestResult.topic_segments,
          << IntentSegment(IntentTexts[4], 23, 29, << IntentEntry(IntentLabels[11], 8) >>) >>),
      TranscriptionResult("minutes", "recap", <<TestSentimentSegments[3], TestSentimentSegments[1]>>,
          -4, "negative",
          << TopicSegment("tt", 13, 22, << TopicEntry("Budget", 8), TopicEntry("Audit", 8) >>) >>,
          << IntentSegment(IntentTexts[3], 23, 29,
                           << IntentEntry(IntentLabels[6], 9), IntentEntry(IntentLabels[20], 8) >>) >>),
      TranscriptionResult("", "", <<>>, 0, "positive", <<>>, <<>>) }

CallConfigs == {DefaultAnalyticsConfig}

----------------------------------------------------------------------------
(* voice_recorder.py *)

\* Optional[T]: None is the empty tuple, a value v is the one-element tuple
None == <<>>

Some(v) == <<v>>

\* line 25
SAMPLE_RATE == 48000

\* line 26
CHANNELS == 2

\* line 27
SAMPLE_WIDTH == 2

\* object identities of the VoiceRecorder objects: one may be registered and
\* each handler in flight may hold one more
RecorderIds == 1..(MaxHandlers + 1)

\* object identities of the VoiceRecvClient objects
VoiceClientIds == 1..(MaxHandlers + 1)

\* names tempfile.NamedTemporaryFile can hand out
Paths == 1..MaxPaths

\* data.pcm of one VoiceData packet: None, or the payload bytes
PcmPayloads == {None, Some(<<1>>), Some(<<2>>)}

\* lines 41-44: VoiceRecorder()
VoiceRecorder == [_buffer |-> <<>>, _recording |-> FALSE, _voice_client |-> None]

\* lines 46-48
is_recording(self) == self._recording

\* start without lines 56-57: a second start silently restarts
start_restart(self, voice_client) ==
    [self |-> [_buffer |-> <<>>, _recording |-> TRUE, _voice_client |-> Some(voice_client)],
     exc |-> None, listen |-> TRUE]

\* start without line 59: the buffer keeps what it held
start_keepbuffer(self, voice_client) ==
    IF self._recording
    THEN [self |-> self, exc |-> Some("RuntimeError"), listen |-> FALSE]
    ELSE [self |-> [self EXCEPT !._recording = TRUE, !._voice_client = Some(voice_client)],
          exc |-> None, listen |-> TRUE]

\* lines 54-65: the recorder after the call, the exception raised, and whether
\* voice_client.listen(sink) was called
start(self, voice_client) ==
    IF self._recording
    THEN [self |-> self, exc |-> Some("RuntimeError"), listen |-> FALSE]
    ELSE [self |-> [_buffer |-> <<>>, _recording |-> TRUE, _voice_client |-> Some(voice_client)],
          exc |-> None, listen |-> TRUE]

\* _on_audio writing the packet in front of the buffered audio
_on_audio_prepend(self, pcm) ==
    IF pcm # None THEN [self EXCEPT !._buffer = pcm[1] \o @] ELSE self

\* lines 87-90
_on_audio(self, pcm) ==
    IF pcm # None THEN [self EXCEPT !._buffer = @ \o pcm[1]] ELSE self

\* a file NamedTemporaryFile has created and nothing has been written to
EmptyFile == [kind |-> "empty"]

\* lines 105-109: the WAV file wave.open writes
WavFile(pcm_data) ==
    [kind |-> "wav", nchannels |-> CHANNELS, sampwidth |-> SAMPLE_WIDTH,
     framerate |-> SAMPLE_RATE, frames |-> pcm_data]

\* the outcomes of the file system calls of one _flush_wav
IoOutcomes == {"ok", "open_failed", "write_failed"}

FreePaths(fs) == {p \in Paths : fs[p] = None}

\* the least element of a non-empty set of numbers
Least(S) == CHOOSE x \in S : \A y \in S : x <= y

\* stop without lines 72-73: a recorder that is not recording is flushed
StopEnter_unguarded(self) ==
    [self |-> [self EXCEPT !._recording = FALSE], exc |-> None,
     stop_listening |-> self._voice_client]

\* stop without line 76: the recorder stays recording
StopEnter_keeprecording(self) ==
    IF ~self._recording \/ self._voice_client = None
    THEN [self |-> self, exc |-> Some("RuntimeError"), stop_listening |-> None]
    ELSE [self |-> self, exc |-> None, stop_listening |-> self._voice_client]

\* lines 72-76 of stop: the guard, stop_listening, the flag
StopEnter(self) ==
    IF ~self._recording \/ self._voice_client = None
    THEN [self |-> self, exc |-> Some("RuntimeError"), stop_listening |-> None]
    ELSE [self |-> [self EXCEPT !._recording = FALSE], exc |-> None,
          stop_listening |-> self._voice_client]

\* lines 94-103 of _flush_wav: the temp file is created and the buffer read
FlushOpen(self, fs, io) ==
    IF io = "open_failed" \/ FreePaths(fs) = {}
    THEN [files |-> fs, exc |-> Some("OSError"), fd |-> None, pcm_data |-> <<>>]
    ELSE LET p == Least(FreePaths(fs))
         IN [files |-> [fs EXCEPT ![p] = Some(EmptyFile)], exc |-> None,
             fd |-> Some(p), pcm_data |-> self._buffer]

\* lines 105-109 of _flush_wav: the WAV header and the frames are written
FlushWrite(fs, fd, pcm_data, io) ==
    IF io = "write_failed"
    THEN [files |-> fs, exc |-> Some("OSError")]
    ELSE [files |-> [fs EXCEPT ![fd] = Some(WavFile(pcm_data))], exc |-> None]

\* line 111 of _flush_wav
FlushReset(self) == [self EXCEPT !._buffer = <<>>]

\* lines 92-112, run without interruption
_flush_wav(self, fs, io) ==
    LET open == FlushOpen(self, fs, io)
    IN IF open.exc # None
       THEN [self |-> self, files |-> fs, exc |-> open.exc, ret |-> None]
       ELSE LET write == FlushWrite(open.files, open.fd[1], open.pcm_data, io)
            IN IF write.exc # None
               THEN [self |-> self, files |-> write.files, exc |-> write.exc, ret |-> None]
               ELSE [self |-> FlushReset(self), files |-> write.files, exc |-> None,
                     ret |-> open.fd]

\* lines 67-81, run without interruption: stop has no await of its own
stop(self, fs, io) ==
    LET enter == StopEnter(self)
    IN IF enter.exc # None
       THEN [self |-> self, files |-> fs, exc |-> enter.exc, ret |-> None,
             stop_listening |-> None]
       ELSE LET flush == _flush_wav(enter.self, fs, io)
            IN [self |-> flush.self, files |-> flush.files, exc |-> flush.exc,
                ret |-> flush.ret, stop_listening |-> enter.stop_listening]

\* a VoiceRecvClient: its connection state and the recorder its sink feeds
VoiceRecvClient == [state |-> "free", sink |-> None]

----------------------------------------------------------------------------
(* discord_bot.py: the bot's state for one guild.  A handler is a coroutine: *)
(* it runs without interruption from one await to the next, and the event    *)
(* loop may run any other handler while it is suspended at an await.  The    *)
(* handlers in flight are a bag of frames: two handlers at the same position *)
(* with equal locals are interchangeable.                                    *)

\* guild.id of the one guild
GuildId == "guild"

\* the frame of a handler that has just been called: its locals (recorder, vc,
\* wav_path, tmp, tmp_path), the messages it has sent, the exception that
\* left it, and the calls it has made
NewHandler == [pc |-> "idle", cmd |-> "none", recorder |-> None, vc |-> None, wav_path |-> None, tmp |-> None, tmp_path |-> None, replies |-> <<>>, escaped |-> None, did |-> {}]

\* d.pop(k, None)
DictPop(d, k) == SelectSeq(d, LAMBDA e : e.key # k)

\* d.get(k)
DictGetOrNone(d, k) == IF DictHas(d, k) THEN Some(DictGet(d, k)) ELSE None

\* guild.voice_client: the voice client the library has registered for the guild
GuildVoiceClient(vcs) ==
    IF \E v \in VoiceClientIds : vcs[v].state # "free"
    THEN Some(CHOOSE v \in VoiceClientIds : vcs[v].state # "free")
    ELSE None

\* the handlers in flight
InFlight(hs) == BagToSet(hs)

\* the identities no handler still refers to
UnusedVoiceClients(vcs, hs) ==
    {v \in VoiceClientIds : vcs[v].state = "free" /\ \A k \in InFlight(hs) : k.vc # Some(v)}

\* channel.connect that registers a second voice client for the guild
connect_unguarded(vcs, hs) ==
    LET v == Least(UnusedVoiceClients(vcs, hs))
    IN [voice_clients |-> [vcs EXCEPT ![v].state = "connecting"], exc |-> None, vc |-> Some(v)]

\* line 197, channel.connect(cls=VoiceRecvClient) up to its first await.
\* discord.py (not part of this repository) raises ClientException("Already
\* connected to a voice channel.") when the guild has a voice client, and
\* otherwise registers the new client before it awaits the connection.
connect(vcs, hs) ==
    IF GuildVoiceClient(vcs) # None
    THEN [voice_clients |-> vcs, exc |-> Some("ClientException"), vc |-> None]
    ELSE LET v == Least(UnusedVoiceClients(vcs, hs))
         IN [voice_clients |-> [vcs EXCEPT ![v].state = "connecting"], exc |-> None, vc |-> Some(v)]

\* the recorders the registry or a handler still refers to
LiveRecorders(reg, hs) ==
    {reg[i].val : i \in DOMAIN reg} \cup {r \in RecorderIds : \E k \in InFlight(hs) : k.recorder = Some(r)}

\* garbage collection: an object nothing refers to is gone
Sweep(recs, reg, hs) ==
    [r \in RecorderIds |-> IF r \in LiveRecorders(reg, hs) THEN recs[r] ELSE None]

\* a recording that no /leave has stopped
NoHandoff == [wavs |-> 0, analyses |-> 0]

\* the history of a recorder goes with it
SweepHandoff(ho, reg, hs) ==
    [r \in RecorderIds |-> IF r \in LiveRecorders(reg, hs) THEN ho[r] ELSE NoHandoff]

\* interaction.response.send_message / interaction.followup.send
Reply(me, msg) == [me EXCEPT !.replies = Append(@, msg)]

\* the handler returns
Done(me) == [me EXCEPT !.pc = "done"]

\* path.unlink(missing_ok=True)
Unlink(fs, path) == [fs EXCEPT ![path] = None]

\* the direct caller of the recorder API between two calls
IdleApi == [pc |-> "idle", self |-> None, fd |-> None, pcm_data |-> <<>>, ret |-> None, exc |-> None, op |-> "none"]

\* no command has been received and no recorder constructed
InitBot ==
    /\ recorders = [r \in RecorderIds |-> None]
    /\ voice_clients = [v \in VoiceClientIds |-> VoiceRecvClient]
    /\ files = [p \in Paths |-> None]
    /\ _recorders = <<>>
    /\ handlers = EmptyBag
    /\ api = IdleApi
    /\ heard = [r \in RecorderIds |-> <<>>]
    /\ handoff = [r \in RecorderIds |-> NoHandoff]

----------------------------------------------------------------------------
(* Operations *)

\* Analyzer(config): a new Analyzer for the same input
NewAnalyzer(c) ==
    /\ pc = "done"
    /\ runs < MaxRuns
    /\ prev' = [cfg |-> cfg, report |-> report]
    /\ cfg' = c
    /\ pc' = "idle"
    /\ UNCHANGED <<result, report, runs, best_sents, classes, calls, locals>>
    /\ UNCHANGED bot_vars

\* report = analyzer.analyze(result)
Analyze ==
    /\ pc = "idle"
    /\ LET insights == WithInsights(NewReport(result), result, cfg)
       IN \E out \in { [affirmation_ratio |-> _compute_consensus(result, order),
                         classes |-> Classes(result, order)] : order \in IterationOrders } :
             /\ report' = WithConsensus(insights, out.affirmation_ratio)
             /\ classes' = out.classes
    /\ best_sents' = BestSents(result)
    /\ runs' = runs + 1
    /\ pc' = "done"
    /\ UNCHANGED <<result, cfg, prev, calls, locals>>
    /\ UNCHANGED bot_vars

\* Concurrent callers.  analyze is synchronous code; callers on several
\* threads interleave between its statements.  Each call has a frame of its
\* own for the local variable report; result and self._cfg are shared
\* references that the statements only read.  An Optional is a sequence of
\* length 0 or 1.
Callers == 1..MaxCallers

Frame_shared(k) == 1

\* the frame of the local variables of call k
Frame(k) == k

At(k, line) == calls[k].pc = line

Goto(k, line) == calls' = [calls EXCEPT ![k].pc = line]

\* the calls that have begun and not returned
InProgress == { k \in Callers : calls[k].pc \notin {"idle", "returned"} }

\* lines 66-74: caller k enters analyze(r) and constructs the report;
\* overlapped records whether another call was in progress at that moment
Call(k, r) ==
    /\ At(k, "idle")
    /\ calls' = [calls EXCEPT ![k] = [pc |-> "76", result |-> <<r>>, ret |-> <<>>,
                                      overlapped |-> InProgress # {}]]
    /\ locals' = [locals EXCEPT ![Frame(k)] = <<NewReport(r)>>]
    /\ UNCHANGED <<result, cfg, report, prev, runs, best_sents, classes, pc>>
    /\ UNCHANGED bot_vars

\* line 76
DetectVibeShifts(k) ==
    /\ At(k, "76")
    /\ locals' = [locals EXCEPT ![Frame(k)][1].vibe_shifts =
                     _detect_vibe_shifts(calls[k].result[1].sentiment_segments, cfg)]
    /\ Goto(k, "77")
    /\ UNCHANGED <<result, cfg, report, prev, runs, best_sents, classes, pc>>
    /\ UNCHANGED bot_vars

\* line 77
DetectHotTopics(k) ==
    /\ At(k, "77")
    /\ locals' = [locals EXCEPT ![Frame(k)][1].hot_topics =
                     _detect_hot_topics(calls[k].result[1], cfg)]
    /\ Goto(k, "78")
    /\ UNCHANGED <<result, cfg, report, prev, runs, best_sents, classes, pc>>
    /\ UNCHANGED bot_vars

\* line 78
CollectTopTopics(k) ==
    /\ At(k, "78")
    /\ locals' = [locals EXCEPT ![Frame(k)][1].top_topics =
                     _collect_top_topics(calls[k].result[1])]
    /\ Goto(k, "79")
    /\ UNCHANGED <<result, cfg, report, prev, runs, best_sents, classes, pc>>
    /\ UNCHANGED bot_vars

\* line 79
ExtractActionItems(k) ==
    /\ At(k, "79")
    /\ locals' = [locals EXCEPT ![Frame(k)][1].action_items =
                     _extract_action_items(calls[k].result[1])]
    /\ Goto(k, "80")
    /\ UNCHANGED <<result, cfg, report, prev, runs, best_sents, classes, pc>>
    /\ UNCHANGED bot_vars

\* lines 80-82
ComputeConsensus(k) ==
    /\ At(k, "80")
    /\ \E affirmation_ratio \in
            { _compute_consensus(calls[k].result[1], order) : order \in IterationOrders } :
          locals' = [locals EXCEPT ![Frame(k)] =
                        <<WithConsensus(locals[Frame(k)][1], affirmation_ratio)>>]
    /\ Goto(k, "91")
    /\ UNCHANGED <<result, cfg, report, prev, runs, best_sents, classes, pc>>
    /\ UNCHANGED bot_vars

\* line 91
Return(k) ==
    /\ At(k, "91")
    /\ calls' = [calls EXCEPT ![k].pc = "returned", ![k].ret = locals[Frame(k)]]
    /\ UNCHANGED <<result, cfg, report, prev, runs, best_sents, classes, locals, pc>>
    /\ UNCHANGED bot_vars

InitWith(inputs, configs) ==
    /\ result \in inputs
    /\ cfg \in configs
    /\ report = VibeReport
    /\ prev = [cfg |-> cfg, report |-> VibeReport]
    /\ runs = 0
    /\ best_sents = <<>>
    /\ classes = <<>>
    /\ calls = [k \in Callers |-> [pc |-> "idle", result |-> <<>>, ret |-> <<>>, overlapped |-> FALSE]]
    /\ locals = [f \in Callers |-> <<>>]
    /\ pc = "idle"
    /\ InitBot

InitVibe == InitWith(VibeInputs, VibeConfigs)

NextVibe == Analyze \/ \E c \in VibeConfigs : NewAnalyzer(c)

SpecVibe == InitVibe /\ [][NextVibe]_vars

InitHot == InitWith(HotInputs, HotConfigs)

NextHot == Analyze

SpecHot == InitHot /\ [][NextHot]_vars

InitTop == InitWith(TopInputs, TopConfigs)

NextTop == Analyze

SpecTop == InitTop /\ [][NextTop]_vars

InitIntent == InitWith(IntentInputs, IntentConfigs)

NextIntent == Analyze

SpecIntent == InitIntent /\ [][NextIntent]_vars

InitReport == InitWith(ReportInputs, ReportConfigs)

NextReport == Analyze \/ \E c \in ReportConfigs : NewAnalyzer(c)

SpecReport == InitReport /\ [][NextReport]_vars

InitCalls == InitWith({TestResult}, CallConfigs)

NextCalls ==
    \E k \in Callers :
        \/ \E r \in CallInputs : Call(k, r)
        \/ DetectVibeShifts(k)
        \/ DetectHotTopics(k)
        \/ CollectTopTopics(k)
        \/ ExtractActionItems(k)
        \/ ComputeConsensus(k)
        \/ Return(k)

SpecCalls == InitCalls /\ [][NextCalls]_vars

----------------------------------------------------------------------------
(* A direct caller of the VoiceRecorder API.  stop is taken statement group  *)
(* by statement group, because the library delivers audio to _on_audio from  *)
(* its own thread, which can run between any two of them.                    *)

Returned(op, ret, exc) == [IdleApi EXCEPT !.op = op, !.ret = ret, !.exc = exc]

\* VoiceRecorder(): the caller holds one recorder
NewRecorder(r) ==
    /\ api.pc = "idle"
    /\ r = Least(RecorderIds)
    /\ recorders[r] = None
    /\ recorders' = [recorders EXCEPT ![r] = Some(VoiceRecorder)]
    /\ api' = Returned("new", None, None)
    /\ UNCHANGED <<voice_clients, files, _recorders, handlers, heard, handoff>>
    /\ UNCHANGED analysis_vars

\* recorder.start(voice_client)
ApiStart(r, vc) ==
    /\ api.pc = "idle"
    /\ recorders[r] # None
    /\ LET out == start(recorders[r][1], vc)
       IN /\ recorders' = [recorders EXCEPT ![r] = Some(out.self)]
          /\ voice_clients' = IF out.listen
                              THEN [voice_clients EXCEPT ![vc].sink = Some(r)]
                              ELSE voice_clients
          /\ heard' = IF out.exc = None THEN [heard EXCEPT ![r] = <<>>] ELSE heard
          /\ api' = Returned("start", None, out.exc)
    /\ UNCHANGED <<files, _recorders, handlers, handoff>>
    /\ UNCHANGED analysis_vars

\* recorder.stop(output_dir), lines 72-76; the caller has deleted the file of
\* its previous stop, as the /leave handler does before it ends
ApiStopEnter(r) ==
    /\ api.pc = "idle"
    /\ api.ret = None
    /\ recorders[r] # None
    /\ LET out == StopEnter(recorders[r][1])
       IN /\ recorders' = [recorders EXCEPT ![r] = Some(out.self)]
          /\ voice_clients' = IF out.stop_listening # None
                              THEN [voice_clients EXCEPT ![out.stop_listening[1]].sink = None]
                              ELSE voice_clients
          /\ api' = IF out.exc # None
                    THEN Returned("stop", None, out.exc)
                    ELSE [IdleApi EXCEPT !.pc = "79", !.self = Some(r), !.op = "stop"]
    /\ UNCHANGED <<files, _recorders, handlers, heard, handoff>>
    /\ UNCHANGED analysis_vars

\* lines 94-103
ApiFlushOpen(io) ==
    /\ api.pc = "79"
    /\ LET out == FlushOpen(recorders[api.self[1]][1], files, io)
       IN /\ files' = out.files
          /\ api' = IF out.exc # None
                    THEN Returned("stop", None, out.exc)
                    ELSE [api EXCEPT !.pc = "105", !.fd = out.fd, !.pcm_data = out.pcm_data]
    /\ UNCHANGED <<recorders, voice_clients, _recorders, handlers, heard, handoff>>
    /\ UNCHANGED analysis_vars

\* lines 105-109
ApiFlushWrite(io) ==
    /\ api.pc = "105"
    /\ LET out == FlushWrite(files, api.fd[1], api.pcm_data, io)
       IN /\ files' = out.files
          /\ api' = IF out.exc # None
                    THEN Returned("stop", None, out.exc)
                    ELSE [api EXCEPT !.pc = "111"]
    /\ UNCHANGED <<recorders, voice_clients, _recorders, handlers, heard, handoff>>
    /\ UNCHANGED analysis_vars

\* lines 111-112 and 79-81: the buffer is replaced and the path returned
ApiFlushReset ==
    /\ api.pc = "111"
    /\ recorders' = [recorders EXCEPT ![api.self[1]] = Some(FlushReset(@[1]))]
    /\ api' = [Returned("stop", api.fd, None) EXCEPT !.self = api.self]
    /\ UNCHANGED <<voice_clients, files, _recorders, handlers, heard, handoff>>
    /\ UNCHANGED analysis_vars

\* the caller deletes the WAV file stop returned
ApiUnlink ==
    /\ api.pc = "idle"
    /\ api.ret # None
    /\ files' = [files EXCEPT ![api.ret[1]] = None]
    /\ api' = Returned("unlink", None, None)
    /\ UNCHANGED <<recorders, voice_clients, _recorders, handlers, heard, handoff>>
    /\ UNCHANGED analysis_vars

\* the recorder is between its start and the read of its buffer (line 103)
\* of the stop that follows
Capturing(r) ==
    /\ recorders[r] # None
    /\ \/ recorders[r][1]._recording
       \/ api.pc = "79" /\ api.self = Some(r)

\* the library's thread calls _on_audio(user, data) with data.pcm = pcm
AudioDelivered(r, pcm) ==
    /\ recorders[r] # None
    /\ Len(recorders[r][1]._buffer) < MaxBuffer
    /\ recorders' = [recorders EXCEPT ![r] = Some(_on_audio(@[1], pcm))]
    /\ heard' = IF Capturing(r) /\ pcm # None
                THEN [heard EXCEPT ![r] = @ \o pcm[1]]
                ELSE heard
    /\ UNCHANGED <<voice_clients, files, _recorders, handlers, api, handoff>>
    /\ UNCHANGED analysis_vars

InitRecorder == InitWith({TestResult}, CallConfigs)

NextRecorder ==
    \/ \E r \in RecorderIds : NewRecorder(r)
    \/ \E r \in RecorderIds : ApiStart(r, Least(VoiceClientIds))
    \/ \E r \in RecorderIds : ApiStopEnter(r)
    \/ \E io \in IoOutcomes : ApiFlushOpen(io)
    \/ \E io \in IoOutcomes : ApiFlushWrite(io)
    \/ ApiFlushReset
    \/ ApiUnlink
    \/ \E r \in RecorderIds, pcm \in PcmPayloads : AudioDelivered(r, pcm)

SpecRecorder == InitRecorder /\ [][NextRecorder]_vars

----------------------------------------------------------------------------
(* discord_bot.py: the slash-command handlers.  An action is a run of one    *)
(* handler from one suspension to the next; a position is the line of the    *)
(* await the handler is suspended at.  An awaited call on the network or     *)
(* the file system either returns or raises.  The awaits on the interaction  *)
(* itself (defer, followup.send) after which the handler touches nothing     *)
(* another handler reads are taken together with what follows them: those    *)
(* steps commute with every step of every other handler.  The failure        *)
(* notice of an except block is taken to be sent.  A handler that has        *)
(* returned is observed (pc = "done") before any other step is taken.  The   *)
(* voice connection is lost in no other way than by /leave.                  *)

NoneDone == \A k \in InFlight(handlers) : k.pc # "done"

\* a command can be received
CanBegin == NoneDone /\ BagCardinality(handlers) < MaxHandlers

\* the handler me is suspended at line of cmd
At_(me, cmd, line) == NoneDone /\ me \in InFlight(handlers) /\ me.cmd = cmd /\ me.pc = line

\* the handlers in flight with a new one
Received(me) == handlers (+) SetToBag({me})

\* the handlers in flight after a step of me that leaves it as next
Stepped(me, next) == (handlers (-) SetToBag({me})) (+) SetToBag({next})

\* /join, lines 168-193: the checks, then defer
JoinBegin(in_voice) ==
    /\ CanBegin
    /\ LET me == [NewHandler EXCEPT !.cmd = "join"]
       IN handlers' = Received(
              IF ~in_voice
              THEN Done(Reply(me, "need_voice"))
              ELSE IF DictHas(_recorders, GuildId) /\ is_recording(recorders[DictGet(_recorders, GuildId)][1])
                   THEN Done(Reply(me, "already_recording"))
                   ELSE [me EXCEPT !.pc = "193"])
    /\ UNCHANGED <<recorders, voice_clients, files, _recorders, api, heard, handoff>>
    /\ UNCHANGED analysis_vars

\* /join, lines 207-209: except Exception
JoinFailed(me) == Done(Reply([me EXCEPT !.vc = None], "failed_join"))

\* /join, lines 195-197: channel.connect is called
JoinConnect(me) ==
    /\ At_(me, "join", "193")
    /\ LET out == connect(voice_clients, handlers)
       IN /\ voice_clients' = out.voice_clients
          /\ handlers' = Stepped(me, IF out.exc # None THEN JoinFailed(me)
                                     ELSE [me EXCEPT !.pc = "197", !.vc = out.vc])
    /\ UNCHANGED <<recorders, files, _recorders, api, heard, handoff>>
    /\ UNCHANGED analysis_vars

\* /join, lines 197-209: the connection is made (ok) or fails; the recorder
\* is constructed, started and registered; the confirmation is sent or not
JoinConnected(me, ok, sent) ==
    /\ At_(me, "join", "197")
    /\ LET v == me.vc[1]
           r == Least({q \in RecorderIds : recorders[q] = None})
           started == start(VoiceRecorder, v)
       IN IF ~ok
          THEN /\ voice_clients' = [voice_clients EXCEPT ![v] = VoiceRecvClient]
               /\ handlers' = Stepped(me, JoinFailed(me))
               /\ UNCHANGED <<recorders, _recorders, heard, handoff>>
          ELSE IF started.exc # None
          THEN /\ voice_clients' = [voice_clients EXCEPT ![v].state = "connected"]
               /\ handlers' = Stepped(me, JoinFailed(me))
               /\ UNCHANGED <<recorders, _recorders, heard, handoff>>
          ELSE /\ voice_clients' = [voice_clients EXCEPT ![v] = [state |-> "connected", sink |-> Some(r)]]
               /\ _recorders' = DictSet(_recorders, GuildId, r)
               /\ handlers' = Stepped(me, IF sent THEN Done(Reply([me EXCEPT !.vc = None], "joined"))
                                          ELSE JoinFailed(me))
               /\ recorders' = Sweep([recorders EXCEPT ![r] = Some(started.self)], _recorders', handlers')
               /\ heard' = [heard EXCEPT ![r] = <<>>]
               /\ handoff' = SweepHandoff([handoff EXCEPT ![r] = NoHandoff], _recorders', handlers')
    /\ UNCHANGED <<files, api>>
    /\ UNCHANGED analysis_vars

\* /leave, lines 219-232: the checks, then defer
LeaveBegin ==
    /\ CanBegin
    /\ LET me == [NewHandler EXCEPT !.cmd = "leave"]
           recorder == DictGetOrNone(_recorders, GuildId)
       IN handlers' = Received(
              IF recorder = None \/ ~is_recording(recorders[recorder[1]][1])
              THEN Done(Reply(me, "not_recording"))
              ELSE [me EXCEPT !.pc = "232", !.recorder = recorder])
    /\ UNCHANGED <<recorders, voice_clients, files, _recorders, api, heard, handoff>>
    /\ UNCHANGED analysis_vars

\* /leave, lines 257-260: finally
LeaveFinally(me, fs) ==
    IF me.wav_path # None /\ fs[me.wav_path[1]] # None THEN Unlink(fs, me.wav_path[1]) ELSE fs

\* /leave, lines 252-256: except Exception
LeaveFailed(me) == Done(Reply([me EXCEPT !.vc = None], "failed_leave"))

\* /leave, lines 243-246: "Recording stopped" is sent or not, and the provider
\* is called (deepgram_client.py line 211: FileNotFoundError for a missing file)
LeaveNotify(me, fs, sent) ==
    IF ~sent THEN LeaveFailed(me)
    ELSE IF fs[me.wav_path[1]] = None THEN LeaveFailed(Reply(me, "stopped"))
    ELSE [Reply(me, "stopped") EXCEPT !.pc = "246", !.vc = None, !.did = @ \cup {"provider"}]

\* the files when the handler is left as next: finally runs when it returned
AfterLeave(next, fs) == IF next.pc = "done" THEN LeaveFinally(next, fs) ELSE fs

\* /leave, lines 233-246: recorder.stop; the registry entry is removed and the
\* voice client asked to disconnect
LeaveStop(me, io, sent) ==
    /\ At_(me, "leave", "232")
    /\ LET r == me.recorder[1]
           out == stop(recorders[r][1], files, io)
           listening == IF out.stop_listening # None
                        THEN [voice_clients EXCEPT ![out.stop_listening[1]].sink = None]
                        ELSE voice_clients
           stopped == [me EXCEPT !.wav_path = out.ret, !.did = @ \cup {"stop"}]
           next == IF out.exc # None THEN LeaveFailed(me)
                   ELSE IF GuildVoiceClient(listening) # None
                        THEN [stopped EXCEPT !.pc = "241", !.vc = GuildVoiceClient(listening)]
                        ELSE LeaveNotify(stopped, out.files, sent)
       IN /\ voice_clients' = listening
          /\ handlers' = Stepped(me, next)
          /\ files' = AfterLeave(next, out.files)
          /\ _recorders' = IF out.exc # None THEN _recorders ELSE DictPop(_recorders, GuildId)
          /\ handoff' = IF out.exc # None THEN handoff ELSE [handoff EXCEPT ![r].wavs = @ + 1]
          /\ recorders' = Sweep([recorders EXCEPT ![r] = Some(out.self)], _recorders', handlers')
    /\ UNCHANGED <<api, heard>>
    /\ UNCHANGED analysis_vars

\* /leave, lines 241-246: the disconnect is done (ok) or fails
LeaveDisconnected(me, ok, sent) ==
    /\ At_(me, "leave", "241")
    /\ LET next == IF ok THEN LeaveNotify(me, files, sent) ELSE LeaveFailed(me)
       IN /\ handlers' = Stepped(me, next)
          /\ files' = AfterLeave(next, files)
    /\ voice_clients' = IF ok THEN [voice_clients EXCEPT ![me.vc[1]] = VoiceRecvClient]
                        ELSE voice_clients
    /\ UNCHANGED <<recorders, _recorders, api, heard, handoff>>
    /\ UNCHANGED analysis_vars

\* /leave, lines 246-260: the transcription arrives (ok) or fails; the
\* analyzer runs; the report is sent or not; finally
LeaveTranscribed(me, ok, sent) ==
    /\ At_(me, "leave", "246")
    /\ LET analysed == [me EXCEPT !.did = @ \cup {"analyze"}]
       IN handlers' = Stepped(me, IF ~ok THEN LeaveFailed(me)
                                  ELSE IF sent THEN Done(Reply(analysed, "report"))
                                  ELSE LeaveFailed(analysed))
    /\ handoff' = IF ok THEN [handoff EXCEPT ![me.recorder[1]].analyses = @ + 1] ELSE handoff
    /\ files' = LeaveFinally(me, files)
    /\ UNCHANGED <<recorders, voice_clients, _recorders, api, heard>>
    /\ UNCHANGED analysis_vars

\* the attachment, saved
Upload == [kind |-> "upload"]

\* /vibe-file, lines 127-131: except Exception, then finally; the name
\* tmp_path is unbound when line 107 was not reached, and finally raises
VibeFileFailed(me) ==
    IF me.tmp_path = None
    THEN Done([Reply(me, "failed_vibe") EXCEPT !.escaped = Some("UnboundLocalError")])
    ELSE Done(Reply(me, "failed_vibe"))

\* /vibe-file, lines 130-131
VibeFileFinally(me, fs) == IF me.tmp_path = None THEN fs ELSE Unlink(fs, me.tmp_path[1])

\* /vibe-file, lines 101-106: defer; the temp file is created and the
\* download begun
VibeFileBegin(io) ==
    /\ CanBegin
    /\ LET me == [NewHandler EXCEPT !.cmd = "vibe-file"]
       IN IF io = "open_failed" \/ FreePaths(files) = {}
          THEN /\ handlers' = Received(VibeFileFailed(me))
               /\ UNCHANGED files
          ELSE LET p == Least(FreePaths(files))
               IN /\ files' = [files EXCEPT ![p] = Some(EmptyFile)]
                  /\ handlers' = Received([me EXCEPT !.pc = "106", !.tmp = Some(p)])
    /\ UNCHANGED <<recorders, voice_clients, _recorders, api, heard, handoff>>
    /\ UNCHANGED analysis_vars

\* /vibe-file, lines 106-109: the download is done (ok) or fails; tmp_path is
\* bound and the provider called
VibeFileSaved(me, ok) ==
    /\ At_(me, "vibe-file", "106")
    /\ IF ~ok
       THEN /\ handlers' = Stepped(me, VibeFileFailed(me))
            /\ UNCHANGED files
       ELSE /\ files' = [files EXCEPT ![me.tmp[1]] = Some(Upload)]
            /\ handlers' = Stepped(me, [me EXCEPT !.pc = "109", !.tmp_path = me.tmp,
                                                  !.did = @ \cup {"provider"}])
    /\ UNCHANGED <<recorders, voice_clients, _recorders, api, heard, handoff>>
    /\ UNCHANGED analysis_vars

\* /vibe-file, lines 109-131: the transcription arrives (ok) or fails; the
\* analyzer runs; the report is sent or not; finally
VibeFileTranscribed(me, ok, sent) ==
    /\ At_(me, "vibe-file", "109")
    /\ LET analysed == [me EXCEPT !.did = @ \cup {"analyze"}]
       IN handlers' = Stepped(me, IF ~ok THEN VibeFileFailed(me)
                                  ELSE IF sent THEN Done(Reply(analysed, "report"))
                                  ELSE VibeFileFailed(analysed))
    /\ files' = VibeFileFinally(me, files)
    /\ UNCHANGED <<recorders, voice_clients, _recorders, api, heard, handoff>>
    /\ UNCHANGED analysis_vars

\* /vibe-url, lines 68-71: defer, then the provider is called
VibeUrlBegin ==
    /\ CanBegin
    /\ handlers' = Received([NewHandler EXCEPT !.cmd = "vibe-url", !.pc = "71", !.did = {"provider"}])
    /\ UNCHANGED <<recorders, voice_clients, files, _recorders, api, heard, handoff>>
    /\ UNCHANGED analysis_vars

\* /vibe-url, lines 71-93: the transcription arrives (ok) or fails; the
\* analyzer runs; the report is sent or not
VibeUrlTranscribed(me, ok, sent) ==
    /\ At_(me, "vibe-url", "71")
    /\ LET analysed == [me EXCEPT !.did = @ \cup {"analyze"}]
       IN handlers' = Stepped(me, IF ~ok THEN Done(Reply(me, "failed_vibe"))
                                  ELSE IF sent THEN Done(Reply(analysed, "report"))
                                  ELSE Done(Reply(analysed, "failed_vibe")))
    /\ UNCHANGED <<recorders, voice_clients, files, _recorders, api, heard, handoff>>
    /\ UNCHANGED analysis_vars

\* the handler has returned: its frame and what only it referred to are gone
Finish(me) ==
    /\ me \in InFlight(handlers)
    /\ me.pc = "done"
    /\ handlers' = handlers (-) SetToBag({me})
    /\ recorders' = Sweep(recorders, _recorders, handlers')
    /\ handoff' = SweepHandoff(handoff, _recorders, handlers')
    /\ UNCHANGED <<voice_clients, files, _recorders, api, heard>>
    /\ UNCHANGED analysis_vars

\* the steps that resume the handler me
Resume(me) ==
    \/ JoinConnect(me)
    \/ \E ok \in BOOLEAN, sent \in BOOLEAN : JoinConnected(me, ok, sent)
    \/ \E io \in IoOutcomes, sent \in BOOLEAN : LeaveStop(me, io, sent)
    \/ \E ok \in BOOLEAN, sent \in BOOLEAN : LeaveDisconnected(me, ok, sent)
    \/ \E ok \in BOOLEAN, sent \in BOOLEAN : LeaveTranscribed(me, ok, sent)
    \/ \E ok \in BOOLEAN : VibeFileSaved(me, ok)
    \/ \E ok \in BOOLEAN, sent \in BOOLEAN : VibeFileTranscribed(me, ok, sent)
    \/ \E ok \in BOOLEAN, sent \in BOOLEAN : VibeUrlTranscribed(me, ok, sent)

\* a command is received
Begin ==
    \/ \E in_voice \in BOOLEAN : JoinBegin(in_voice)
    \/ LeaveBegin
    \/ \E io \in IoOutcomes : VibeFileBegin(io)
    \/ VibeUrlBegin

InitKokoroBot == InitWith({TestResult}, CallConfigs)

NextBot ==
    \/ Begin
    \/ \E me \in InFlight(handlers) : Resume(me)
    \/ \E me \in InFlight(handlers) : Finish(me)

SpecBot == InitKokoroBot /\ [][NextBot]_vars

\* the event loop resumes a suspended handler when what it awaits is done
Progress == \E me \in InFlight(handlers) : Resume(me) \/ Finish(me)

SpecBotFair == InitKokoroBot /\ [][NextBot]_vars /\ WF_vars(Progress)

----------------------------------------------------------------------------
(* Vibe shifts: properties, checked under SpecVibe *)

Scores(s) == [i \in DOMAIN s |-> s[i].sentiment_score]

\* |s[i].score - s[i-1].score|
Delta(s, i) == abs(s[i].sentiment_score - s[i - 1].sentiment_score)

ShiftIndices(s, t) == {i \in 2..Len(s) : Delta(s, i) >= t}

\* the k-th smallest element of I
Nth(I, k) == CHOOSE i \in I : Cardinality({j \in I : j <= i}) = k

IsTestExample ==
    /\ pc = "done"
    /\ Scores(result.sentiment_segments) = <<6, 1, -7, -5>>
    /\ cfg.vibe_shift_threshold = 4

\* C2 as stated: for the scores [0.6, 0.1, -0.7, -0.5] and threshold 0.4,
\* exactly one vibe shift is detected, the one between the 2nd and 3rd
\* segments (delta 0.8).
C2_TestExampleOneShift ==
    IsTestExample =>
        /\ Len(report.vibe_shifts) = 1
        /\ report.vibe_shifts[1].from_score = 1
        /\ report.vibe_shifts[1].to_score = -7
        /\ report.vibe_shifts[1].delta = 8

\* C2 as amended: for the scores [0.6, 0.1, -0.7, -0.5] and threshold 0.4,
\* exactly two vibe shifts are detected: the one between the 1st and 2nd
\* segments (delta 0.5), then the one between the 2nd and 3rd (delta 0.8).
C2_TestExampleTwoShifts ==
    IsTestExample =>
        LET v == report.vibe_shifts
        IN /\ Len(v) = 2
           /\ v[1].from_score = 6 /\ v[1].to_score = 1 /\ v[1].delta = 5
           /\ v[1].timestamp_text = result.sentiment_segments[2].text
           /\ v[2].from_score = 1 /\ v[2].to_score = -7 /\ v[2].delta = 8
           /\ v[2].timestamp_text = result.sentiment_segments[3].text

C2_Witness == IsTestExample /\ result = TestResult /\ Len(report.vibe_shifts) = 2

Range(s) == {s[i] : i \in DOMAIN s}

\* C3: for the same sentiment sequence and thresholds t1 <= t2, the shifts
\* reported with t2 are among the shifts reported with t1, and a threshold
\* strictly greater than every adjacent-pair delta yields zero shifts.
C3_MonotonicInThreshold ==
    pc = "done" =>
        /\ (runs >= 2 /\ prev.cfg.vibe_shift_threshold <= cfg.vibe_shift_threshold) =>
              /\ Range(report.vibe_shifts) \subseteq Range(prev.report.vibe_shifts)
              /\ Len(report.vibe_shifts) <= Len(prev.report.vibe_shifts)
        /\ (runs >= 2 /\ cfg.vibe_shift_threshold <= prev.cfg.vibe_shift_threshold) =>
              /\ Range(prev.report.vibe_shifts) \subseteq Range(report.vibe_shifts)
              /\ Len(prev.report.vibe_shifts) <= Len(report.vibe_shifts)
        /\ (\A i \in 2..Len(result.sentiment_segments) :
               cfg.vibe_shift_threshold > Delta(result.sentiment_segments, i)) =>
              report.vibe_shifts = <<>>

\* a second call with a higher threshold keeps some shifts and drops others,
\* and a third threshold above every delta of a stream that has pairs
C3_Witness ==
    /\ pc = "done"
    /\ runs = 2
    /\ prev.cfg.vibe_shift_threshold < cfg.vibe_shift_threshold
    /\ report.vibe_shifts # <<>>
    /\ Len(report.vibe_shifts) < Len(prev.report.vibe_shifts)

----------------------------------------------------------------------------
(* Hot topics: properties, checked under SpecHot *)

\* topic.start <= sent.end and topic.end >= sent.start
Intersects(tseg, sseg) ==
    tseg.start_word <= sseg.end_word /\ tseg.end_word >= sseg.start_word

\* the sentiment segments of the input that meet topic segment i
Overlapping(i) ==
    {j \in DOMAIN result.sentiment_segments :
        Intersects(result.topic_segments[i], result.sentiment_segments[j])}

\* the lowest score among them
LowestScore(i) ==
    CHOOSE m \in {result.sentiment_segments[j].sentiment_score : j \in Overlapping(i)} :
        \A j \in Overlapping(i) : m <= result.sentiment_segments[j].sentiment_score

\* C4 as stated: for every topic segment, the sentiment segment used for
\* hot-topic detection is one with the minimum score over all sentiment
\* segments of the input whose word range intersects the topic segment's
\* range, also when several sentiment segments have the same range.
C4_BestIsMinimumOfAll ==
    pc = "done" =>
        \A i \in DOMAIN result.topic_segments :
            /\ Len(best_sents[i]) = 0 <=> Overlapping(i) = {}
            /\ Len(best_sents[i]) = 1 =>
                  /\ \E j \in Overlapping(i) : best_sents[i][1] = result.sentiment_segments[j]
                  /\ best_sents[i][1].sentiment_score = LowestScore(i)

\* C5: every entry of hot_topics has a score strictly below
\* negative_sentiment_threshold, and a threshold that is not above any
\* sentiment score of the input yields an empty hot_topics.
C5_HotStrictlyBelowThreshold ==
    pc = "done" =>
        /\ \A k \in DOMAIN report.hot_topics :
              report.hot_topics[k].sentiment_score < cfg.negative_sentiment_threshold
        /\ (\A j \in DOMAIN result.sentiment_segments :
               cfg.negative_sentiment_threshold
                  <= result.sentiment_segments[j].sentiment_score) =>
              report.hot_topics = <<>>

\* a topic segment whose best sentiment score equals the threshold holds a
\* confident entry and stays out, while another topic is hot
C5_Witness ==
    /\ pc = "done"
    /\ report.hot_topics # <<>>
    /\ \E i \in DOMAIN result.topic_segments :
          /\ Len(best_sents[i]) = 1
          /\ best_sents[i][1].sentiment_score = cfg.negative_sentiment_threshold
          /\ \E j \in DOMAIN result.topic_segments[i].topics :
                /\ result.topic_segments[i].topics[j].confidence_score >= cfg.min_confidence
                /\ \A k \in DOMAIN report.hot_topics :
                      report.hot_topics[k].topic # result.topic_segments[i].topics[j].topic

\* topic segment i overlaps a sentiment segment and the lowest overlapping
\* score is below the threshold
Qualifies(i) ==
    Overlapping(i) # {} /\ LowestScore(i) < cfg.negative_sentiment_threshold

\* C6 as stated: a topic name appears in hot_topics if and only if some topic
\* segment overlaps at least one sentiment segment, the lowest overlapping
\* sentiment score is below negative_sentiment_threshold and the segment has
\* an entry of that name with confidence >= min_confidence; the entry
\* carries that sentiment segment's score and label and the topic segment's
\* text.
C6_HotTopicIff ==
    pc = "done" =>
        LET ts == result.topic_segments
            ss == result.sentiment_segments
            expected == {ts[i].topics[j].topic :
                            <<i, j>> \in {<<i, j>> \in (DOMAIN ts) \X (1..MaxNames + 1) :
                                             /\ j \in DOMAIN ts[i].topics
                                             /\ Qualifies(i)
                                             /\ ts[i].topics[j].confidence_score
                                                   >= cfg.min_confidence}}
        IN /\ {report.hot_topics[k].topic : k \in DOMAIN report.hot_topics} = expected
           /\ \A k \in DOMAIN report.hot_topics :
                 \E i \in DOMAIN ts :
                     /\ Qualifies(i)
                     /\ \E j \in DOMAIN ts[i].topics :
                           /\ ts[i].topics[j].topic = report.hot_topics[k].topic
                           /\ ts[i].topics[j].confidence_score >= cfg.min_confidence
                     /\ \E m \in Overlapping(i) :
                           /\ ss[m].sentiment_score = LowestScore(i)
                           /\ report.hot_topics[k] =
                                 HotTopic(report.hot_topics[k].topic, ss[m].sentiment_score,
                                          ss[m].sentiment, ts[i].text)

\* the candidates of a name, as the scan of the topic segments produces them
CandidatesOf(name) ==
    LET hot == HotCandidates(result, cfg)
    IN {k \in DOMAIN hot : hot[k].topic = name}

\* C7: hot_topics never contains two entries with the same topic name, and
\* the retained entry's score is the minimum of the scores of the
\* candidates of that name.
C7_HotDedupKeepsLowest ==
    pc = "done" =>
        LET hot == HotCandidates(result, cfg)
            h == report.hot_topics
        IN /\ \A k, l \in DOMAIN h : h[k].topic = h[l].topic => k = l
           /\ \A k \in DOMAIN h :
                 /\ CandidatesOf(h[k].topic) # {}
                 /\ \E m \in CandidatesOf(h[k].topic) : hot[m] = h[k]
                 /\ \A m \in CandidatesOf(h[k].topic) :
                       h[k].sentiment_score <= hot[m].sentiment_score

\* a name with two candidates, the later one with the lower score
C7_Witness ==
    /\ pc = "done"
    /\ Len(report.hot_topics) = 1
    /\ LET hot == HotCandidates(result, cfg)
       IN \E m, n \in DOMAIN hot :
             /\ m < n
             /\ hot[m].topic = hot[n].topic
             /\ hot[n].sentiment_score < hot[m].sentiment_score
             /\ report.hot_topics[1] = hot[n]

\* C8: hot_topics is ordered by ascending sentiment_score.
C8_HotAscending ==
    pc = "done" =>
        \A k \in 1..(Len(report.hot_topics) - 1) :
            report.hot_topics[k].sentiment_score
               <= report.hot_topics[k + 1].sentiment_score

\* two hot topics whose candidates arrive with the higher score first
C8_Witness ==
    /\ pc = "done"
    /\ Len(report.hot_topics) = 2
    /\ report.hot_topics[1].sentiment_score < report.hot_topics[2].sentiment_score
    /\ HotCandidates(result, cfg) = <<report.hot_topics[2], report.hot_topics[1]>>

----------------------------------------------------------------------------
(* Top topics: properties, checked under SpecTop *)

\* every (segment, entry) position of the input's topic entries
EntryPositions ==
    {p \in (DOMAIN result.topic_segments) \X (1..MaxNames + 1) :
        p[2] \in DOMAIN result.topic_segments[p[1]].topics}

EntryAt(p) == result.topic_segments[p[1]].topics[p[2]]

AllNames == {EntryAt(p).topic : p \in EntryPositions}

ConfidencesOf(name) ==
    {EntryAt(p).confidence_score : p \in {q \in EntryPositions : EntryAt(q).topic = name}}

MaxConfidence(name) ==
    CHOOSE m \in ConfidencesOf(name) : \A x \in ConfidencesOf(name) : x <= m

\* C9: every entry of top_topics has a distinct topic name and its
\* confidence is the maximum confidence of that name over all topic entries
\* of all topic segments (confidences in [0,1]).
C9_TopIsMaxConfidence ==
    pc = "done" =>
        LET t == report.top_topics
        IN /\ \A k, l \in DOMAIN t : t[k].topic = t[l].topic => k = l
           /\ \A k \in DOMAIN t :
                 /\ t[k].topic \in AllNames
                 /\ t[k].confidence_score = MaxConfidence(t[k].topic)

\* a name listed in two segments with different non-zero confidences
C9_Witness ==
    /\ pc = "done"
    /\ \E k \in DOMAIN report.top_topics :
          \E x, y \in ConfidencesOf(report.top_topics[k].topic) :
              0 < x /\ x < y /\ report.top_topics[k].confidence_score = y

\* C10: top_topics has length min(10, number of distinct names), is sorted
\* non-increasing by confidence, and no name left out has an aggregated
\* confidence strictly greater than that of a name included.
C10_TopTenRanked ==
    pc = "done" =>
        LET t == report.top_topics
            included == {t[k].topic : k \in DOMAIN t}
        IN /\ Len(t) = (IF Cardinality(AllNames) < 10 THEN Cardinality(AllNames) ELSE 10)
           /\ \A k \in 1..(Len(t) - 1) :
                 t[k].confidence_score >= t[k + 1].confidence_score
           /\ included \subseteq AllNames
           /\ \A n \in AllNames \ included :
                 \A k \in DOMAIN t : MaxConfidence(n) <= t[k].confidence_score

\* more than ten names, one left out that came before an included one
C10_Witness ==
    /\ pc = "done"
    /\ Cardinality(AllNames) > 10
    /\ Len(report.top_topics) = 10
    /\ \E n \in AllNames :
          /\ \A k \in DOMAIN report.top_topics : report.top_topics[k].topic # n
          /\ \E k \in DOMAIN report.top_topics :
                /\ MaxConfidence(n) < report.top_topics[k].confidence_score
                /\ \E i \in 1..Len(TopicNames), j \in 1..Len(TopicNames) :
                      /\ i < j
                      /\ TopicNames[i] = n
                      /\ TopicNames[j] = report.top_topics[k].topic

-----------------------------------------------------------------------------
(* Action items and consensus: properties, checked under SpecIntent *)

\* the (segment, entry) positions of the input's intent stream
IntentPositions ==
    UNION { { <<i, j>> : j \in DOMAIN result.intent_segments[i].intents } :
            i \in DOMAIN result.intent_segments }

IntentAt(p) == result.intent_segments[p[1]].intents[p[2]]

\* the positions whose segment text or intent label matches the action lexicon
ActionPositions ==
    { p \in IntentPositions :
        \/ _is_action_like(result.intent_segments[p[1]].text)
        \/ _is_action_like(IntentAt(p).intent) }

\* p comes before q in the stream
Before(p, q) == p[1] < q[1] \/ (p[1] = q[1] /\ p[2] < q[2])

ExplicitMarkers ==
    { <<"a", "c", "t", "i", "o", "n", " ", "i", "t", "e", "m">>,
      <<"n", "e", "x", "t", " ", "s", "t", "e", "p">>,
      <<"f", "o", "l", "l", "o", "w", "-", "u", "p">>,
      <<"t", "a", "k", "e", "a", "w", "a", "y">> }

\* str holds marker at position i, in any letter case, as a whole word or phrase
MarkerAt(str, marker, i) ==
    /\ i + Len(marker) - 1 <= Len(str)
    /\ lower(SubSeq(str, i, i + Len(marker) - 1)) = marker
    /\ i = 1 \/ ~IsWordChar(str[i - 1])
    /\ i + Len(marker) - 1 = Len(str) \/ ~IsWordChar(str[i + Len(marker)])

HasMarker(str) == \E marker \in ExplicitMarkers : \E i \in DOMAIN str : MarkerAt(str, marker, i)

\* C12: an intent entry whose segment text or intent label holds, in any
\* letter case and as a whole word or phrase, one of the explicit markers
\* "action item", "next step", "follow-up", "takeaway" is action-like: the
\* report has an action item for it.
C12_MarkersAreActionLike ==
    pc = "done" =>
        \A p \in IntentPositions :
            (HasMarker(result.intent_segments[p[1]].text) \/ HasMarker(IntentAt(p).intent)) =>
                \E k \in DOMAIN report.action_items :
                    /\ report.action_items[k].text = result.intent_segments[p[1]].text
                    /\ report.action_items[k].intent = IntentAt(p).intent

\* the entries that the call classified as cls
Classified(cls) == { p \in IntentPositions : classes[p[1]][p[2]] = cls }

affirm_count == Cardinality(Classified("affirm"))

disagree_count == Cardinality(Classified("disagree"))

\* C13: affirmation_ratio is affirm_count / (affirm_count + disagree_count)
\* over all intent entries of all intent segments, the entries of neither
\* class counting for nothing; it is 1/2 when no entry is classifiable and 1
\* when every classifiable entry is an affirmation.
C13_RatioIsAffirmShare ==
    pc = "done" =>
        /\ report.affirmation_ratio.den > 0
        /\ IF affirm_count + disagree_count = 0
           THEN 2 * report.affirmation_ratio.num = report.affirmation_ratio.den
           ELSE report.affirmation_ratio.num * (affirm_count + disagree_count)
                  = affirm_count * report.affirmation_ratio.den
        /\ (affirm_count > 0 /\ disagree_count = 0) =>
              report.affirmation_ratio.num = report.affirmation_ratio.den

\* affirmations, disagreements and unclassified entries over two segments
C13_Witness ==
    /\ pc = "done"
    /\ affirm_count > 0
    /\ disagree_count > 0
    /\ Classified("none") # {}
    /\ \E p, q \in IntentPositions : p[1] # q[1]
    /\ report.affirmation_ratio.num * (affirm_count + disagree_count)
         = affirm_count * report.affirmation_ratio.den

\* C14: consensus_level is high iff affirmation_ratio >= 0.70, moderate iff
\* 0.40 <= affirmation_ratio < 0.70 and low iff affirmation_ratio < 0.40,
\* the lower bound of each band inclusive (0.70 high, 0.69999 moderate, 0.40
\* moderate, 0.39999 low); affirmation_ratio lies within [0, 1].
C14_LevelBands ==
    /\ pc = "done" =>
          /\ report.affirmation_ratio.den > 0
          /\ 0 <= report.affirmation_ratio.num
          /\ report.affirmation_ratio.num <= report.affirmation_ratio.den
          /\ report.consensus_level = "high" <=>
                10 * report.affirmation_ratio.num >= 7 * report.affirmation_ratio.den
          /\ report.consensus_level = "moderate" <=>
                /\ 10 * report.affirmation_ratio.num >= 4 * report.affirmation_ratio.den
                /\ 10 * report.affirmation_ratio.num < 7 * report.affirmation_ratio.den
          /\ report.consensus_level = "low" <=>
                10 * report.affirmation_ratio.num < 4 * report.affirmation_ratio.den
    /\ _ratio_to_level(Ratio(70000, 100000)) = "high"
    /\ _ratio_to_level(Ratio(69999, 100000)) = "moderate"
    /\ _ratio_to_level(Ratio(40000, 100000)) = "moderate"
    /\ _ratio_to_level(Ratio(39999, 100000)) = "low"

\* a report whose ratio is exactly 0.70, from seven affirmations and three
\* disagreements
C14_Witness ==
    /\ pc = "done"
    /\ affirm_count = 7
    /\ disagree_count = 3
    /\ report.affirmation_ratio = [num |-> 7, den |-> 10]
    /\ report.consensus_level = "high"

\* C15: an intent entry whose label is, in any letter case, exactly one of
\* the seven disagreement keywords is counted as a disagreement and not as an
\* affirmation; alone in its input it brings the affirmation ratio to 0.
C15_KeywordLabelsDisagree ==
    pc = "done" =>
        \A p \in IntentPositions :
            lower(IntentAt(p).intent) \in _DISAGREEMENT_KEYWORDS =>
                /\ classes[p[1]][p[2]] = "disagree"
                /\ IntentPositions = {p} => report.affirmation_ratio.num = 0

\* the lowercase form of the label holds a keyword of the set
HoldsKeyword(intent_label, keywords) ==
    \E kw \in keywords : Contains(lower(intent_label), kw)

\* C16: a label whose lowercase form holds both an affirmation keyword and a
\* disagreement keyword is classified as an affirmation; a label holding only
\* a disagreement keyword is classified as a disagreement; a label holding
\* neither is unclassified.
C16_AffirmationFirst ==
    pc = "done" =>
        \A p \in IntentPositions :
            LET a == HoldsKeyword(IntentAt(p).intent, _AFFIRMATION_KEYWORDS)
                d == HoldsKeyword(IntentAt(p).intent, _DISAGREEMENT_KEYWORDS)
            IN /\ (a /\ d) => classes[p[1]][p[2]] = "affirm"
               /\ (~a /\ d) => classes[p[1]][p[2]] = "disagree"
               /\ (~a /\ ~d) => classes[p[1]][p[2]] = "none"

\* the label "Accept or reject", which holds a keyword of each set, has been
\* classified as an affirmation
C16_Witness ==
    /\ pc = "done"
    /\ \E p \in IntentPositions :
          /\ IntentAt(p).intent = IntentLabels[13]
          /\ HoldsKeyword(IntentAt(p).intent, _AFFIRMATION_KEYWORDS)
          /\ HoldsKeyword(IntentAt(p).intent, _DISAGREEMENT_KEYWORDS)
          /\ classes[p[1]][p[2]] = "affirm"
          /\ report.affirmation_ratio = [num |-> 1, den |-> 1]

-----------------------------------------------------------------------------
(* The whole report: properties, checked under SpecReport *)

\* C17: two calls of analyze on equal inputs with equal configurations
\* return equal reports, the order of hot topics and of top topics with
\* equal sort keys included, whatever the iteration order of the keyword
\* sets in either call.
C17_Deterministic ==
    (pc = "done" /\ runs >= 2 /\ prev.cfg = cfg) => report = prev.report

\* two calls under one configuration on an input whose hot topics tie on the
\* score, whose top topics tie on the confidence and whose intent labels
\* hold keywords of both sets
C17_Witness ==
    /\ pc = "done"
    /\ runs >= 2
    /\ prev.cfg = cfg
    /\ report = prev.report
    /\ Len(report.hot_topics) = 2
    /\ report.hot_topics[1].sentiment_score = report.hot_topics[2].sentiment_score
    /\ Len(report.top_topics) = 2
    /\ report.top_topics[1].confidence_score = report.top_topics[2].confidence_score
    /\ \E p \in IntentPositions :
          /\ HoldsKeyword(IntentAt(p).intent, _AFFIRMATION_KEYWORDS)
          /\ HoldsKeyword(IntentAt(p).intent, _DISAGREEMENT_KEYWORDS)

\* C18: the report passes the input through: summary, transcript,
\* overall_sentiment, overall_sentiment_score and sentiment_segments are the
\* input's summary, transcript, sentiment_average_label, sentiment_average
\* and sentiment_segments, whatever the derived views are.
C18_PassThrough ==
    pc = "done" =>
        /\ report.summary = result.summary
        /\ report.transcript = result.transcript
        /\ report.overall_sentiment = result.sentiment_average_label
        /\ report.overall_sentiment_score = result.sentiment_average
        /\ report.sentiment_segments = result.sentiment_segments

\* a report of an input none of whose pass-through fields has the default
\* value of the report, with every derived view non-empty
C18_Witness ==
    /\ pc = "done"
    /\ report.summary = "summary"
    /\ report.transcript = "transcript"
    /\ report.overall_sentiment = "negative"
    /\ report.overall_sentiment_score = -4
    /\ Len(report.sentiment_segments) = 4
    /\ report.vibe_shifts # <<>>
    /\ report.hot_topics # <<>>
    /\ report.top_topics # <<>>
    /\ report.action_items # <<>>

\* no sentiment segment, no topic in any topic segment and no intent in any
\* intent segment
Degenerate ==
    /\ result.sentiment_segments = <<>>
    /\ \A i \in DOMAIN result.topic_segments : result.topic_segments[i].topics = <<>>
    /\ \A i \in DOMAIN result.intent_segments : result.intent_segments[i].intents = <<>>

\* C20: for an input whose sentiment, topic and intent streams are empty, or
\* whose segments carry empty topic and intent lists, analyze returns a
\* report with empty vibe_shifts, hot_topics, top_topics and action_items,
\* affirmation_ratio 0.5 and consensus_level moderate.
C20_DegradesToEmpty ==
    (pc = "done" /\ Degenerate) =>
        /\ report.vibe_shifts = <<>>
        /\ report.hot_topics = <<>>
        /\ report.top_topics = <<>>
        /\ report.action_items = <<>>
        /\ report.affirmation_ratio = [num |-> 1, den |-> 2]
        /\ report.consensus_level = "moderate"

\* the report of an input with a topic segment without topics and an intent
\* segment without intents
C20_Witness ==
    /\ pc = "done"
    /\ Degenerate
    /\ result.topic_segments # <<>>
    /\ result.intent_segments # <<>>
    /\ report.affirmation_ratio = [num |-> 1, den |-> 2]
    /\ report.top_topics = <<>>

-----------------------------------------------------------------------------
(* Concurrent callers: properties, checked under SpecCalls *)

\* C19: analyze never changes its argument or the configuration of the
\* Analyzer, and a call that returns while other callers run analyze on the
\* same Analyzer, in any interleaving, returns the report that analyze gives
\* for its argument alone.
C19_CallsIndependent ==
    /\ [](\A k \in Callers :
            calls[k].pc = "returned" =>
                \E order \in IterationOrders :
                    calls[k].ret = <<analyze(calls[k].result[1], cfg, order)>>)
    /\ [][/\ cfg' = cfg
          /\ \A k \in Callers :
                calls[k].pc # "idle" => calls'[k].result = calls[k].result]_vars

\* a call that began while another call with a different argument was in
\* progress and returned before that call did
C19_Witness ==
    \E k, other \in Callers :
        /\ calls[k].pc = "returned"
        /\ calls[k].overlapped
        /\ calls[other].pc \notin {"idle", "returned"}
        /\ calls[other].result # calls[k].result
        /\ calls[k].ret[1].summary = calls[k].result[1].summary
        /\ calls[k].ret[1].vibe_shifts # <<>>

----------------------------------------------------------------------------
(* The recorder's audio: properties, checked under SpecRecorder *)

\* the call of stop that has just returned a path
StopReturned == api.pc = "idle" /\ api.op = "stop" /\ api.ret # None

\* C26: the WAV file a stop returns holds, in arrival order, exactly the PCM
\* payloads delivered to _on_audio between the matching start and that stop
\* (the stop's read of the buffer), with the format of lines 25-27; and from
\* a start on, the buffer holds exactly what was delivered since that start,
\* so neither audio of an earlier recording nor audio delivered while not
\* recording can reach a later file
C26_WavHoldsRecording ==
    /\ StopReturned => files[api.ret[1]] = Some(WavFile(heard[api.self[1]]))
    /\ \A r \in RecorderIds : Capturing(r) => recorders[r][1]._buffer = heard[r]

\* a stop returned a file of two payloads in arrival order, after an earlier
\* stop had failed to write its file and audio had arrived while not recording
C26_Witness ==
    /\ StopReturned
    /\ files[api.ret[1]] = Some(WavFile(<<2, 1>>))
    /\ \E p \in Paths : files[p] = Some(EmptyFile)

----------------------------------------------------------------------------
(* The commands of one guild: properties, checked under SpecBot *)

\* the VoiceRecorder objects alive
Alive == {r \in RecorderIds : recorders[r] # None}

\* the recorder registered for the guild is recording
RegisteredRecording ==
    /\ DictHas(_recorders, GuildId)
    /\ is_recording(recorders[DictGet(_recorders, GuildId)][1])

\* this step receives a command cmd: me is the frame its handler is left in
ReceivedAs(me, cmd) ==
    /\ BagCardinality(handlers') = BagCardinality(handlers) + 1
    /\ me.cmd = cmd
    /\ handlers' = Received(me)

\* start on a recorder that is recording raises and changes nothing
StartRejected ==
    \A r \in Alive, vc \in VoiceClientIds :
        is_recording(recorders[r][1]) =>
            start(recorders[r][1], vc) = [self |-> recorders[r][1], exc |-> Some("RuntimeError"), listen |-> FALSE]

\* a /join received while the registered recorder is recording is answered
\* at once, with the warning when the member is in a voice channel, and
\* changes neither a recorder nor a voice client nor the registry
JoinRejected ==
    \A me \in InFlight(handlers') :
        RegisteredRecording /\ ReceivedAs(me, "join") =>
            /\ me.pc = "done"
            /\ me.replies \in {<<"already_recording">>, <<"need_voice">>}
            /\ UNCHANGED <<recorders, voice_clients, files, _recorders, heard, handoff>>

\* C21: a second start is rejected without restarting the recording:
\* VoiceRecorder.start on a recording recorder raises RuntimeError and /join
\* in a guild whose registered recorder is recording replies with a warning;
\* flag, buffer, voice client and registry stay as they are
C21_DoubleStartRejected == []StartRejected /\ [][JoinRejected]_vars

\* a /join has just been answered with the warning while the guild records
C21_Witness ==
    /\ RegisteredRecording
    /\ \E me \in InFlight(handlers) :
           me.cmd = "join" /\ me.pc = "done" /\ me.replies = <<"already_recording">>

\* stop on a recorder that is not recording raises, writes no file and
\* changes nothing, whatever the file system would do
StopRejected ==
    \A self \in {recorders[r][1] : r \in Alive} \cup {VoiceRecorder}, io \in IoOutcomes :
        ~is_recording(self) =>
            stop(self, files, io) = [self |-> self, files |-> files, exc |-> Some("RuntimeError"), ret |-> None, stop_listening |-> None]

\* a /leave received while the guild has no registered recorder, or one that
\* is not recording, is answered at once with the rejection, calls neither
\* stop nor the provider nor the analyzer, and changes nothing
LeaveRejected ==
    \A me \in InFlight(handlers') :
        ~RegisteredRecording /\ ReceivedAs(me, "leave") =>
            /\ me.pc = "done"
            /\ me.replies = <<"not_recording">>
            /\ me.did = {}
            /\ UNCHANGED <<recorders, voice_clients, files, _recorders, heard, handoff>>

\* C22: a stop when nothing is recorded is rejected: VoiceRecorder.stop on a
\* recorder that is not recording raises RuntimeError and /leave without a
\* recording recorder replies with a rejection; no WAV file is written, the
\* provider and the analyzer are not called, recorder and registry stay
C22_StopWhenIdleRejected == []StopRejected /\ [][LeaveRejected]_vars

\* a /leave has just been rejected in a guild whose registered recorder had
\* been stopped before
C22_Witness ==
    /\ DictHas(_recorders, GuildId)
    /\ ~RegisteredRecording
    /\ \E me \in InFlight(handlers) :
           me.cmd = "leave" /\ me.pc = "done" /\ me.replies = <<"not_recording">>

Obtained(r) ==
    {k \in InFlight(handlers) : k.cmd = "leave" /\ k.recorder = Some(r) /\ "stop" \in k.did}

\* C24: for each recording, at most one /leave obtains a WAV from
\* recorder.stop and runs the analyzer on it, once; every other /leave for
\* that recording ends with a failure notice and has called neither the
\* provider nor the analyzer
C24_HandoffAtMostOnce ==
    /\ \A r \in RecorderIds :
           /\ handoff[r].wavs <= 1
           /\ handoff[r].analyses <= handoff[r].wavs
           /\ \A k \in Obtained(r) : Obtained(r) = {k} /\ CopiesIn(k, handlers) = 1
    /\ \A k \in InFlight(handlers) :
           k.cmd = "leave" /\ k.pc = "done" /\ "stop" \notin k.did =>
               /\ k.did = {}
               /\ k.replies \in {<<"not_recording">>, <<"failed_leave">>}

\* two /leave handlers passed the check for the same recording: one stopped
\* it and had it analysed, the other has just ended with the failure notice
C24_Witness ==
    \E b \in InFlight(handlers) :
        /\ b.cmd = "leave"
        /\ b.recorder # None
        /\ handoff[b.recorder[1]] = [wavs |-> 1, analyses |-> 1]
        /\ b.pc = "done"
        /\ b.did = {}
        /\ b.replies = <<"failed_leave">>

\* C25: no exception leaves a handler: whatever is raised after the defer is
\* caught in the handler, which answers with the failure notice
C25_NoExceptionEscapes ==
    \A me \in InFlight(handlers) : me.escaped = None

\* the temp files no running handler is going to delete
Orphans ==
    {p \in Paths : /\ files[p] # None
                   /\ \A k \in InFlight(handlers) :
                          k.pc \in {"idle", "done"} \/ (k.tmp # Some(p) /\ k.wav_path # Some(p))}

\* C28: every temp file created by a /vibe-file or /leave handler is gone
\* when the handler has returned, on the success path and on every failure
\* path
C28_TempFilesDeleted == Orphans = {}

----------------------------------------------------------------------------
(* The commands of one guild: progress, checked under SpecBotFair *)

\* a /leave has passed the is-recording check
LeavePassedCheck == \E me \in InFlight(handlers) : me.cmd = "leave" /\ me.pc = "232"

\* the guild is idle: nothing registered, nothing recording, no voice client
GuildIdle ==
    /\ ~DictHas(_recorders, GuildId)
    /\ \A r \in Alive : ~is_recording(recorders[r][1])
    /\ GuildVoiceClient(voice_clients) = None

\* C27: every /leave that passes the is-recording check leads to an idle
\* guild (recorder unregistered, not recording, voice disconnected), whether
\* or not the flush, the transcription or the analysis fails
C27_LeaveLeadsToIdle == LeavePassedCheck ~> GuildIdle

====
